---------------------------- MODULE Spec2Model ----------------------------
(***************************************************************************)
(* A model of the chain-consistency core of smellycoin: the UTXO set       *)
(* (core/src/utxo.rs and the utxo_impl module of core/src/lib.rs), the     *)
(* consensus validator and subsidy schedule (consensus/src/lib.rs) and the *)
(* two difficulty controllers (consensus/src/lib.rs, module difficulty,    *)
(* and consensus/src/difficulty.rs).                                       *)
(***************************************************************************)
EXTENDS Integers, Sequences, FiniteSets, TLC

VARIABLES
    utxos,        \* UTXOSet.utxos: outpoint -> entry
    op,           \* the last operation performed on the UTXO set
    result,       \* what that operation returned
    pre,          \* the UTXO set before that operation
    nTxs,         \* how many transactions were handed to that operation
    argHeight,    \* the height handed to that operation
    ops,          \* number of operations performed so far
    undoBlk,      \* the block being reverted, transaction by transaction
    undoPre,      \* the UTXO set before that block was applied
    undoOk,       \* every revert_transaction of it so far returned Ok
    argCoinbase,  \* the is_coinbase flag handed to that operation
    undoTodo,     \* the positions of its transactions still to be reverted
    spent,        \* outpoints consumed by inputs of successfully applied calls
    created,      \* outpoint -> value, for outputs of successfully applied calls
    applied,      \* txids of the transactions handed in so far
    clean,        \* every call so far succeeded, on pairwise distinct txids
    dupSpend,     \* outpoints of the set the last block's inputs named twice
    immature,     \* immature coinbase entries the last call's inputs named
    respent,      \* outpoints consumed earlier that the last call's inputs named
    fresh,        \* the last call's txids were pairwise distinct and new to the set
    build,        \* the build a consensus function runs in
    call,         \* the consensus function called, with its arguments
    ret,          \* what that call produced
    blocks,           \* MemoryBlockStore.blocks: hash -> block
    block_hashes,     \* MemoryBlockStore.block_hashes: height -> hash
    best_block_hash,  \* MemoryBlockStore.best_block_hash
    utxo_set,         \* MemoryBlockStore.utxo_set
    tx_blocks,        \* MemoryBlockStore.transactions and tx_blocks: txid -> block hash
    tasks,            \* the process_new_block calls in progress, one per peer task
    block_store,      \* which BlockStore the node runs on
    jobs,             \* MiningJobManager.jobs: job id -> job
    job_tips,         \* every job id handed out so far -> the tip it was created for
    created_jobs,     \* the ids create_job returned, in call order
    tip,              \* the hash of the best block the pool builds on
    clock,            \* the system time in seconds
    sessions,         \* StratumServer.sessions: address -> SessionState
    callbacks,        \* the blocks handed to new_block_callback so far
    shares,           \* (session, share) -> what became of that share so far
    requests,         \* number of requests handled so far
    last,             \* the last request handled, and what its handler did
    kawpow_params,    \* KawpowContext.params
    light_caches,     \* kawpow.rs KawpowContext.light_caches: epoch -> cache
    single_light_cache,  \* lib.rs kawpow::KawpowContext.light_cache
    verifiers,        \* the verify_kawpow calls in progress, one per task
    verified_heights, \* the heights whose verification has finished
    verifications,    \* number of verify_kawpow calls started so far
    last_verify,      \* the verification that finished last
    arcs,             \* the Arc<Vec<u8>> buffers get_light_cache allocated
    obtained,         \* verifier -> the buffer get_light_cache returned to it
    pool_config,      \* MiningPool.config: fee_percent, min_payment_threshold
    miners,           \* MiningPool.miners: worker name -> MinerInfo
    pool_stats,       \* MiningPool.stats
    miners_lock,      \* who holds the RwLock of MiningPool.miners for good
    pool_ops,         \* number of pool operations called so far
    pool_last,        \* the pool operation called last, and what it did
    rw,               \* the RwLocks of MiningPool.miners and .stats: who holds them
    pool_tasks,       \* per thread of the pool, the call it is in and its locals
    ledger,           \* per worker, what was credited and what was paid out so far
    lines,            \* per session, the lines that have arrived on its socket
    taken,            \* per session, how many of them the reader task has taken
    handling,         \* per session, the lines whose handling is in progress
    channel,          \* per session, the messages sent on its channel so far
    instant,          \* Instant::now(), in seconds
    last_activity,    \* per session object, StratumSessionState.last_activity
    cleanup           \* the cleanup task's pass: its step, `now` and to_remove

utxoVars == <<utxos, op, result, pre, nTxs, argHeight, argCoinbase, ops, undoBlk,
              undoPre, undoTodo, undoOk, spent, created, applied, clean,
              dupSpend, immature, respent, fresh>>

consVars == <<build, call, ret>>

syncVars == <<blocks, block_hashes, best_block_hash, utxo_set, tx_blocks, tasks,
              block_store>>

stratumVars == <<jobs, job_tips, created_jobs, tip, clock, sessions, callbacks, shares,
                 requests, last>>

kawpowVars == <<kawpow_params, light_caches, single_light_cache, verifiers,
                verified_heights, verifications, last_verify, arcs, obtained>>

lockVars == <<rw, pool_tasks, ledger>>
poolVars == <<pool_config, miners, pool_stats, miners_lock, pool_ops, pool_last,
              lockVars>>

connVars == <<lines, taken, handling, channel>>

cleanupVars == <<instant, last_activity, cleanup>>

nodeVars == <<syncVars, stratumVars, kawpowVars, poolVars, connVars, cleanupVars>>

\* what the actions of one component leave alone
notSyncVars == <<utxoVars, consVars, stratumVars, kawpowVars, poolVars, connVars,
    cleanupVars>>
notStratumVars == <<utxoVars, consVars, syncVars, kawpowVars, poolVars, connVars,
    cleanupVars>>
notKawpowVars == <<utxoVars, consVars, syncVars, stratumVars, poolVars, connVars,
    cleanupVars>>
notPoolVars == <<utxoVars, consVars, syncVars, stratumVars, kawpowVars, connVars,
    cleanupVars>>
notMiningVars == <<utxoVars, consVars, syncVars, kawpowVars, poolVars, cleanupVars>>
notCleanupVars == <<utxoVars, consVars, syncVars, kawpowVars, poolVars, connVars>>

vars == <<utxoVars, consVars, nodeVars>>

-----------------------------------------------------------------------------
(* Bounds of the UTXO model *)

MaxTxid == 3
MaxOutputs == 1
MaxValue == 1
MaxInputs == 2
MaxBlockTxs == 3
MaxBlockInputs == 2
MaxOps == 2

Txids == 1..MaxTxid
Vouts == 0..(MaxOutputs - 1)
Outpoints == Txids \X Vouts
Heights == 1..MaxOps

SeqsUpTo(S, n) == UNION {[1..k -> S] : k \in 0..n}

\* TransactionOutput: the script is the fixed template of the tests
TestScript == <<118, 169, 20>>
Output(v) == [value |-> v, script_pubkey |-> TestScript]
OutputLists == UNION {[1..k -> {Output(v) : v \in 1..MaxValue}] : k \in 1..MaxOutputs}

\* Transaction, as far as the UTXO set reads it: txid, inputs, outputs
Transactions ==
    [txid : Txids, inputs : SeqsUpTo(Outpoints, MaxInputs), outputs : OutputLists]

EmptyMap == [o \in {} |-> 0]

\* coinbase maturity of the specification (section 6: 100 blocks); the source
\* defines no such parameter
CoinbaseMaturity == 100

-----------------------------------------------------------------------------
(* core/src/utxo.rs *)

Ok == "Ok"
NotFound == "NotFound"
DoubleSpend == "DoubleSpend"

Without(u, key) == [o \in DOMAIN u \ {key} |-> u[o]]
With(u, key, e) == [o \in DOMAIN u \cup {key} |-> IF o = key THEN e ELSE u[o]]

\* UTXOSet::add
add(u, key, entry) ==
    IF key \in DOMAIN u
    THEN [utxos |-> u, res |-> DoubleSpend]
    ELSE [utxos |-> With(u, key, entry), res |-> Ok]

\* remove reading the entry without taking it out of the map
remove_keeps(u, key) ==
    IF key \in DOMAIN u
    THEN [utxos |-> u, res |-> Ok]
    ELSE [utxos |-> u, res |-> NotFound]

\* UTXOSet::remove
remove(u, key) ==
    IF key \in DOMAIN u
    THEN [utxos |-> Without(u, key), res |-> Ok]
    ELSE [utxos |-> u, res |-> NotFound]

\* the loop `for input in &tx.inputs { self.remove(..)?; }`, from input i on
RECURSIVE RemoveInputs(_, _, _)
RemoveInputs(u, ins, i) ==
    IF i > Len(ins) THEN [utxos |-> u, res |-> Ok]
    ELSE LET r == remove(u, ins[i]) IN
         IF r.res # Ok THEN r ELSE RemoveInputs(r.utxos, ins, i + 1)

NewEntry(tx, k, height, is_coinbase) ==
    [value |-> tx.outputs[k].value, script_pubkey |-> tx.outputs[k].script_pubkey,
     height |-> height, is_coinbase |-> is_coinbase]

\* the loop `for (vout, output) in tx.outputs.iter().enumerate() { self.add(..)?; }`,
\* from output k on (k is 1-based here, vout = k - 1)
RECURSIVE AddOutputs(_, _, _, _, _)
AddOutputs(u, tx, height, is_coinbase, k) ==
    IF k > Len(tx.outputs) THEN [utxos |-> u, res |-> Ok]
    ELSE LET r == add(u, <<tx.txid, k - 1>>, NewEntry(tx, k, height, is_coinbase)) IN
         IF r.res # Ok THEN r ELSE AddOutputs(r.utxos, tx, height, is_coinbase, k + 1)

\* UTXOSet::process_transaction
process_transaction(u, tx, height, is_coinbase) ==
    LET r == IF is_coinbase THEN [utxos |-> u, res |-> Ok]
             ELSE RemoveInputs(u, tx.inputs, 1) IN
    IF r.res # Ok THEN r ELSE AddOutputs(r.utxos, tx, height, is_coinbase, 1)

\* UTXOSet::process_block, from transaction i on
RECURSIVE ProcessFrom(_, _, _, _)
ProcessFrom(u, txs, height, i) ==
    IF i > Len(txs) THEN [utxos |-> u, res |-> Ok]
    ELSE LET r == process_transaction(u, txs[i], height, i = 1) IN
         IF r.res # Ok THEN r ELSE ProcessFrom(r.utxos, txs, height, i + 1)

process_block(u, txs, height) == ProcessFrom(u, txs, height, 1)

\* the loop `for vout in 0..tx.outputs.len() { self.remove(&tx.txid, vout)?; }`
RECURSIVE RemoveOutputs(_, _, _)
RemoveOutputs(u, tx, k) ==
    IF k > Len(tx.outputs) THEN [utxos |-> u, res |-> Ok]
    ELSE LET r == remove(u, <<tx.txid, k - 1>>) IN
         IF r.res # Ok THEN r ELSE RemoveOutputs(r.utxos, tx, k + 1)

\* UTXOSet::revert_transaction: the inputs are not added back (the branch
\* `if !is_coinbase { }` is empty)
revert_transaction(u, tx, height, is_coinbase) == RemoveOutputs(u, tx, 1)

-----------------------------------------------------------------------------
(* The UTXO set as a state machine: one action per public operation *)

Range(f) == {f[i] : i \in DOMAIN f}

\* the first transaction of a block carries no inputs the set reads
Coinbases == {tx \in Transactions : tx.inputs = <<>>}
RECURSIVE InputCount(_, _)
InputCount(txs, i) ==
    IF i > Len(txs) THEN 0 ELSE Len(txs[i].inputs) + InputCount(txs, i + 1)
Spenders(n) == {tx \in Transactions : Len(tx.inputs) <= n}
RECURSIVE Tails(_, _)
Tails(k, n) ==
    IF k = 0 THEN {<<>>}
    ELSE {<<tx>> \o rest : tx \in Spenders(n),
                           rest \in Tails(k - 1, n)}
Blocks ==
    {<<>>} \cup
    {b \in UNION {{<<cb>> \o rest : cb \in Coinbases, rest \in Tails(k, MaxBlockInputs)}
                  : k \in 0..(MaxBlockTxs - 1)} : InputCount(b, 1) <= MaxBlockInputs}

\* outpoints the non-coinbase transactions of txs consume
Consumed(txs, firstIsCoinbase) ==
    UNION {Range(txs[i].inputs) : i \in (IF firstIsCoinbase THEN 2 ELSE 1)..Len(txs)}

\* outpoint -> value for every output txs create
Produced(txs) ==
    LET keys == {<<txs[i].txid, k - 1>> : i \in DOMAIN txs, k \in 1..MaxOutputs}
        made == {o \in keys : \E i \in DOMAIN txs :
                    txs[i].txid = o[1] /\ o[2] + 1 <= Len(txs[i].outputs)}
    IN  [o \in made |->
            LET i == CHOOSE j \in DOMAIN txs :
                        txs[j].txid = o[1] /\ o[2] + 1 <= Len(txs[j].outputs)
            IN  txs[i].outputs[o[2] + 1].value]

\* outpoints of u that the non-coinbase inputs of txs name more than once
NamedTwice(u, txs) ==
    {o \in DOMAIN u :
        \E i, j \in 2..Len(txs) : \E a \in DOMAIN txs[i].inputs, b \in DOMAIN txs[j].inputs :
            /\ <<i, a>> # <<j, b>>
            /\ txs[i].inputs[a] = o
            /\ txs[j].inputs[b] = o}

\* coinbase entries of u, younger than the maturity at height, that txs consume
Immature(u, txs, firstIsCoinbase, height) ==
    {o \in Consumed(txs, firstIsCoinbase) \cap DOMAIN u :
        u[o].is_coinbase /\ height - u[o].height < CoinbaseMaturity}

Merge(f, g) == [o \in DOMAIN f \cup DOMAIN g |-> IF o \in DOMAIN g THEN g[o] ELSE f[o]]

DistinctTxids(txs) ==
    \A i, j \in DOMAIN txs : i # j => txs[i].txid # txs[j].txid

Record(name, r, txs, height, is_coinbase) ==
    /\ utxos' = r.utxos
    /\ op' = name
    /\ result' = r.res
    /\ pre' = utxos
    /\ nTxs' = Len(txs)
    /\ argHeight' = height
    /\ argCoinbase' = is_coinbase
    /\ ops' = ops + 1

Fresh(txs) == DistinctTxids(txs) /\ \A i \in DOMAIN txs : txs[i].txid \notin applied

Track(r, txs, firstIsCoinbase) ==
    /\ fresh' = Fresh(txs)
    /\ respent' = IF clean /\ Fresh(txs)
                  THEN Consumed(txs, firstIsCoinbase) \cap spent ELSE {}
    /\ spent' = IF r.res = Ok THEN spent \cup Consumed(txs, firstIsCoinbase) ELSE spent
    /\ created' = IF r.res = Ok THEN Merge(created, Produced(txs)) ELSE created
    /\ applied' = applied \cup {txs[i].txid : i \in DOMAIN txs}
    /\ clean' = /\ clean
                /\ r.res = Ok
                /\ Fresh(txs)

NoUndo ==
    /\ undoBlk' = <<>>
    /\ undoPre' = EmptyMap
    /\ undoTodo' = {}
    /\ undoOk' = TRUE

ProcessTransaction ==
    /\ ops < MaxOps
    /\ \E tx \in Transactions, height \in {ops + 1}, is_coinbase \in BOOLEAN :
          LET r == process_transaction(utxos, tx, height, is_coinbase) IN
          /\ Record("process_transaction", r, <<tx>>, height, is_coinbase)
          /\ Track(r, <<tx>>, is_coinbase)
          /\ immature' = Immature(utxos, <<tx>>, is_coinbase, height)
    /\ dupSpend' = {}
    /\ NoUndo
    /\ UNCHANGED <<consVars, nodeVars>>

ProcessBlock ==
    /\ ops < MaxOps
    /\ \E txs \in Blocks, height \in {ops + 1} :
          LET r == process_block(utxos, txs, height) IN
          /\ Record("process_block", r, txs, height, TRUE)
          /\ Track(r, txs, TRUE)
          /\ immature' = Immature(utxos, txs, TRUE, height)
          /\ dupSpend' = NamedTwice(utxos, txs)
          /\ undoBlk' = IF r.res = Ok THEN txs ELSE <<>>
          /\ undoPre' = IF r.res = Ok THEN utxos ELSE EmptyMap
          /\ undoTodo' = IF r.res = Ok THEN DOMAIN txs ELSE {}
          /\ undoOk' = TRUE
    /\ UNCHANGED <<consVars, nodeVars>>

\* the caller reverts a block it applied: revert_transaction on each of its
\* transactions, at the block's height (a run is explored up to its reverts:
\* they use up the calls left)
RevertTransaction ==
    /\ undoTodo # {}
    /\ \E i \in undoTodo :
          LET r == revert_transaction(utxos, undoBlk[i], argHeight, i = 1) IN
          /\ utxos' = r.utxos
          /\ op' = "revert_transaction"
          /\ result' = r.res
          /\ pre' = utxos
          /\ undoTodo' = undoTodo \ {i}
          /\ undoOk' = (undoOk /\ r.res = Ok)
    /\ ops' = MaxOps
    /\ clean' = FALSE
    /\ dupSpend' = {}
    /\ immature' = {}
    /\ respent' = {}
    /\ UNCHANGED <<nTxs, fresh, argHeight, argCoinbase, undoBlk, undoPre, spent,
                   created, applied>>
    /\ UNCHANGED <<consVars, nodeVars>>

\* UTXOSet::new(), and nothing recorded yet
NewUtxoSet ==
    /\ utxos = EmptyMap
    /\ op = "new"
    /\ result = Ok
    /\ pre = EmptyMap
    /\ nTxs = 0
    /\ argHeight = 0
    /\ argCoinbase = FALSE
    /\ ops = 0
    /\ undoBlk = <<>>
    /\ undoPre = EmptyMap
    /\ undoTodo = {}
    /\ undoOk = TRUE
    /\ spent = {}
    /\ created = EmptyMap
    /\ applied = {}
    /\ clean = TRUE
    /\ dupSpend = {}
    /\ immature = {}
    /\ respent = {}
    /\ fresh = TRUE

\* no consensus function is called while the UTXO set is exercised
IdleConsensus ==
    /\ build = [overflow_checks |-> TRUE, shift_bits |-> 32, log_debug |-> FALSE,
                kawpow |-> "lib.rs", stratum |-> "first"]
    /\ call = [name |-> "none"]
    /\ ret = [state |-> "pending"]

\* bounds of the block store's model
MaxPeerBlocks == 3         \* length of the chain the peers deliver
MaxTasks == 2              \* process_new_block calls that may be in progress at once

Tasks == 1..MaxTasks
NoBlock == [hash |-> 0]
IdleTask == [pc |-> "idle", block |-> NoBlock, returned |-> "none"]

\* MemoryBlockStore::new() and JsonBlockStore::new() on an empty directory:
\* best_block_hash is [0; 32], written 0; a new SQLite database has no
\* best_block_hash row, written 0 too
NewBlockStore(kind) ==
    /\ blocks = EmptyMap
    /\ block_hashes = EmptyMap
    /\ best_block_hash = 0
    /\ utxo_set = EmptyMap
    /\ tx_blocks = EmptyMap
    /\ tasks = [t \in Tasks |-> IdleTask]
    /\ block_store = kind

NewMemoryBlockStore == NewBlockStore("MemoryBlockStore")

\* bounds of the Stratum server's model
MaxSessions == 2           \* connections accepted
MaxJobs == 2               \* jobs created
MaxTips == 1               \* times the best block changes
MaxClock == 1              \* seconds that pass
MaxRequests == 3           \* requests handled
MaxLines == 2              \* lines a miner sends on one connection

NoRequest == [method |-> "none"]
IdlePass == [pc |-> "idle", now |-> 0, to_remove |-> {}]

\* StratumServer::new and MiningJobManager::new: no session, no job
NewStratumServer ==
    /\ jobs = EmptyMap
    /\ job_tips = EmptyMap
    /\ created_jobs = <<>>
    /\ tip = 0
    /\ clock = 0
    /\ sessions = EmptyMap
    /\ callbacks = <<>>
    /\ shares = EmptyMap
    /\ requests = 0
    /\ last = NoRequest
    /\ lines = [s \in 1..MaxSessions |-> <<>>]
    /\ taken = [s \in 1..MaxSessions |-> 0]
    /\ handling = [s \in 1..MaxSessions |-> {}]
    /\ channel = [s \in 1..MaxSessions |-> <<>>]
    /\ instant = 0
    /\ last_activity = EmptyMap
    /\ cleanup = IdlePass

\* bounds of the KAWPOW context's model
MaxVerifiers == 2          \* verify_kawpow calls that may be in progress at once
MaxVerifications == 4      \* verify_kawpow calls started

Verifiers == 1..MaxVerifiers
\* LightCache::new sets current_epoch to u64::MAX, which is no block's epoch
NoEpoch == -1
IdleVerifier == [pc |-> "idle", height |-> 0, further |-> FALSE]
NoVerification == [height |-> 0, used |-> NoEpoch, generated |-> FALSE, further |-> FALSE]
NoArc == [epoch |-> NoEpoch, arc |-> 0]

\* KawpowContext::new of kawpow.rs (light_caches) and of the inline module of
\* lib.rs (light_cache, here single_light_cache)
NewKawpowContext(params) ==
    /\ kawpow_params = params
    /\ light_caches = EmptyMap
    /\ single_light_cache = [current_epoch |-> NoEpoch, cache |-> <<>>]
    /\ verifiers = [t \in Verifiers |-> IdleVerifier]
    /\ verified_heights = {}
    /\ verifications = 0
    /\ last_verify = NoVerification
    /\ arcs = <<>>
    /\ obtained = [t \in Verifiers |-> NoArc]

\* bounds of the mining pool's model
MaxPoolOps == 5            \* pool operations called
MaxBlockReward == 4        \* the largest block reward handed to the pool

NoPoolOp == [op |-> "none"]
PoolThreads == {"rewards", "share", "payments", "stats"}
IdlePoolTask == [pc |-> "idle", returned |-> "none"]
FreeLock == [readers |-> {}, writer |-> "none"]

\* MiningPool::new: no miner, zeroed statistics
NewMiningPool(config) ==
    /\ pool_config = config
    /\ miners = EmptyMap
    /\ pool_stats = [shares_accepted |-> 0, shares_rejected |-> 0, blocks_found |-> 0]
    /\ miners_lock = "free"
    /\ pool_ops = 0
    /\ pool_last = NoPoolOp
    /\ rw = [miners |-> FreeLock, stats |-> FreeLock]
    /\ pool_tasks = [t \in PoolThreads |-> IdlePoolTask]
    /\ ledger = [paid |-> EmptyMap, credited |-> EmptyMap]

\* the node as the UTXO set and the consensus functions leave it
IdleNode ==
    /\ NewMemoryBlockStore
    /\ NewStratumServer
    /\ NewKawpowContext([epoch_length |-> 100])
    /\ NewMiningPool([fee_percent |-> 1, min_payment_threshold |-> 1, max_jobs |-> 1])

InitUtxo == NewUtxoSet /\ IdleConsensus /\ IdleNode

NextUtxo == ProcessTransaction \/ ProcessBlock \/ RevertTransaction

SpecUtxo == InitUtxo /\ [][NextUtxo]_vars

-----------------------------------------------------------------------------
(* Claims about the UTXO set *)

\* C1: applying a block that applies successfully and then reverting each of
\* its transactions gives back the UTXO set the block was applied to.
C1_RevertRestores ==
    (undoBlk # <<>> /\ fresh /\ undoTodo = {} /\ undoOk) => utxos = undoPre

\* C2: a process_block call that returns an error leaves the UTXO set as it
\* was before the call.
C2_BlockAllOrNothing ==
    (op = "process_block" /\ fresh /\ result # Ok) => utxos = pre

\* C3: a block whose non-coinbase inputs name an unspent outpoint twice fails
\* with DoubleSpend and leaves the UTXO set unchanged.
C3_DoubleSpendRejected ==
    (op = "process_block" /\ fresh /\ dupSpend # {})
        => (result = DoubleSpend /\ utxos = pre)

\* C4: a call whose non-coinbase inputs name a coinbase entry younger than the
\* coinbase maturity is rejected, and the entry stays in the set.
C4_ImmatureCoinbaseUnspendable ==
    (fresh /\ immature # {}) => (result # Ok /\ immature \subseteq DOMAIN utxos)

\* C5: after successful calls on pairwise distinct txids no consumed outpoint is
\* present, every unconsumed output is present with the value it was created
\* with, and a call naming an already consumed outpoint fails.
C5_NoSpentAndPresent ==
    /\ clean => /\ spent \cap DOMAIN utxos = {}
                /\ \A o \in DOMAIN created \ spent :
                      o \in DOMAIN utxos /\ utxos[o].value = created[o]
    /\ respent # {} => result # Ok

C5_Witness ==
    \/ clean /\ spent # {} /\ DOMAIN created \ spent # {} /\ ops = MaxOps
    \/ respent # {} /\ result = NotFound


-----------------------------------------------------------------------------
(* Machine integers.  A u32 or a u64 does not fit a TLC integer, so such a     *)
(* value is a little-endian string of bytes: index 1 is the least significant. *)

\* a function on 1..w as a tuple, evaluated once
Bytes(f) == f \o <<>>

Zeros(w) == Bytes([i \in 1..w |-> 0])
\* zero-extend, or truncate (an `as` cast to a narrower type), to w bytes
Resize(a, w) == Bytes([i \in 1..w |-> IF i <= Len(a) THEN a[i] ELSE 0])
\* the bytes of a number below 2^31
FromInt(n, w) ==
    Bytes([i \in 1..w |-> IF i <= 4 THEN (n \div (256 ^ (i - 1))) % 256 ELSE 0])
Pow2(n, w) == Bytes([i \in 1..w |-> IF i - 1 = n \div 8 THEN 2 ^ (n % 8) ELSE 0])
IsZero(a) == \A i \in DOMAIN a : a[i] = 0
MaxOf(S) == CHOOSE x \in S : \A y \in S : y <= x

RECURSIVE LessFrom(_, _, _)
LessFrom(a, b, i) ==
    IF i = 0 THEN FALSE
    ELSE IF a[i] # b[i] THEN a[i] < b[i]
    ELSE LessFrom(a, b, i - 1)
Less(a, b) ==
    LET w == MaxOf({Len(a), Len(b)}) IN LessFrom(Resize(a, w), Resize(b, w), w)
Leq(a, b) == ~Less(b, a)

\* the exact sum: one byte longer than the longer operand
RECURSIVE AddFrom(_, _, _, _)
AddFrom(a, b, i, c) ==
    IF i > Len(a) THEN <<c>>
    ELSE LET t == a[i] + b[i] + c IN <<t % 256>> \o AddFrom(a, b, i + 1, t \div 256)
Sum(a, b) ==
    LET w == MaxOf({Len(a), Len(b)}) IN AddFrom(Resize(a, w), Resize(b, w), 1, 0)

\* the exact product with a number below 2^23: four bytes longer than a
RECURSIVE MulFrom(_, _, _, _)
MulFrom(a, m, i, c) ==
    IF i > Len(a) THEN FromInt(c, 4)
    ELSE LET t == a[i] * m + c IN <<t % 256>> \o MulFrom(a, m, i + 1, t \div 256)
MulSmall(a, m) == MulFrom(a, m, 1, 0)

\* quotient and remainder by a number below 2^23 (long division from the top)
RECURSIVE PrefixRem(_, _, _)
PrefixRem(a, d, i) ==
    IF i > Len(a) THEN 0 ELSE (PrefixRem(a, d, i + 1) * 256 + a[i]) % d
Quot(a, d) ==
    Bytes([i \in 1..Len(a) |-> (PrefixRem(a, d, i + 1) * 256 + a[i]) \div d])
Rem(a, d) == PrefixRem(a, d, 1)

ShrBytes(a, k) == Bytes([i \in 1..Len(a) |-> IF i + k <= Len(a) THEN a[i + k] ELSE 0])
ShlBytes(a, k) == Bytes([i \in 1..Len(a) |-> IF i - k >= 1 THEN a[i - k] ELSE 0])
Half(a) ==
    Bytes([i \in 1..Len(a) |->
              a[i] \div 2 + (IF i < Len(a) THEN (a[i + 1] % 2) * 128 ELSE 0)])
Twice(a) == Resize(Sum(a, a), Len(a))
RECURSIVE HalfN(_, _)
HalfN(a, n) == IF n = 0 THEN a ELSE HalfN(Half(a), n - 1)
RECURSIVE TwiceN(_, _)
TwiceN(a, n) == IF n = 0 THEN a ELSE TwiceN(Twice(a), n - 1)
\* shifts within the width of a; bits shifted out are lost
ShrBits(a, n) == HalfN(ShrBytes(a, n \div 8), n % 8)
ShlBits(a, n) == TwiceN(ShlBytes(a, n \div 8), n % 8)

BitLen(a) ==
    LET nz == {i \in DOMAIN a : a[i] # 0} IN
    IF nz = {} THEN 0
    ELSE LET h == MaxOf(nz) IN
         8 * (h - 1) + (CHOOSE n \in 1..8 : 2 ^ (n - 1) <= a[h] /\ a[h] < 2 ^ n)
TestBit(a, n) == n \div 8 + 1 <= Len(a) /\ (a[n \div 8 + 1] \div (2 ^ (n % 8))) % 2 = 1
LowBitsZero(a, n) ==
    \A i \in DOMAIN a :
        /\ i <= n \div 8 => a[i] = 0
        /\ i = n \div 8 + 1 => a[i] % (2 ^ (n % 8)) = 0

\* the exact product of a u64 with a byte string, in w bytes (w large enough):
\* the column sums of the long multiplication, then the carries
At(b, j) == IF j >= 1 /\ j <= Len(b) THEN b[j] ELSE 0
Columns(a, b, w) ==
    Bytes([k \in 1..w |->
              a[1] * At(b, k) + a[2] * At(b, k - 1) + a[3] * At(b, k - 2)
                  + a[4] * At(b, k - 3) + a[5] * At(b, k - 4) + a[6] * At(b, k - 5)
                  + a[7] * At(b, k - 6) + a[8] * At(b, k - 7)])
RECURSIVE Carry(_, _, _)
Carry(cols, i, c) ==
    IF i > Len(cols) THEN <<>>
    ELSE LET t == cols[i] + c IN <<t % 256>> \o Carry(cols, i + 1, t \div 256)
Mul(a, b, w) == Carry(Columns(a, b, w), 1, 0)

U64Max == Bytes([i \in 1..8 |-> 255])

\* what a call produced: a value, or a panic
Returns(v) == [state |-> "returned", value |-> v]
Panic == [state |-> "panicked"]
Pending == [state |-> "pending"]
Returned(r) == r.state = "returned"

-----------------------------------------------------------------------------
(* IEEE-754 binary64, as far as difficulty.rs uses it: a positive double is   *)
(* sig * 2^exp with sig below 2^53 (exp is kept as a pair up - down).         *)

\* the nearest double to the bytes P scaled by 2^(up - down), ties to even
RoundTo53(P, up, down) ==
    LET L == BitLen(P) IN
    IF L <= 53 THEN [sig |-> P, up |-> up, down |-> down]
    ELSE LET d == L - 53
             R == ShrBits(P, d)
             roundUp == /\ TestBit(P, d - 1)
                        /\ (~LowBitsZero(P, d - 1) \/ TestBit(R, 0))
         IN [sig |-> IF roundUp THEN Resize(Sum(R, FromInt(1, 1)), Len(P)) ELSE R,
             up |-> up + d, down |-> down]

\* p as f64 / q as f64 for small integers with 1/2 <= p/q < 2
F64Div(p, q) ==
    LET t == IF p >= q THEN 52 ELSE 53
        N == MulSmall(Pow2(t, 9), p)
        Q == Quot(N, q)
        r == Rem(N, q)
        roundUp == 2 * r > q \/ (2 * r = q /\ Q[1] % 2 = 1)
    IN [sig |-> IF roundUp THEN Resize(Sum(Q, FromInt(1, 1)), Len(Q)) ELSE Q,
        up |-> 0, down |-> t]

\* (x as f64 * f) as u64 for a u64 x: the conversion and the product round to
\* nearest, the cast back truncates toward zero and saturates
F64MulToU64(x, f) ==
    LET xf == RoundTo53(x, 0, 0)
        p == RoundTo53(Mul(xf.sig, f.sig, 16), xf.up + f.up, xf.down + f.down)
    IN IF p.up >= p.down
       THEN IF BitLen(p.sig) + (p.up - p.down) > 64 THEN U64Max
            ELSE Resize(ShlBits(p.sig, p.up - p.down), 8)
       ELSE Resize(ShrBits(p.sig, p.down - p.up), 8)

-----------------------------------------------------------------------------
(* Consensus parameters and the subsidy schedule (consensus/src/lib.rs) *)

\* a compact "bits" word 0xEEMMMMMM from its exponent byte and its mantissa
Compact(exponent, mantissa) == exponent * 16777216 + mantissa
Exponent(bits) == (bits \div 16777216) % 256
Mantissa(bits) == bits % 16777216

\* 50_000_000_000
InitialBlockSubsidy == Resize(MulSmall(FromInt(50000, 8), 1000000), 8)

mainnet ==
    [network |-> "Mainnet", target_block_time |-> 15,
     difficulty_adjustment_interval |-> 2016,
     min_difficulty_bits |-> Compact(30, 65535),
     subsidy_halving_interval |-> 2100000,
     initial_block_subsidy |-> InitialBlockSubsidy]
testnet ==
    [network |-> "Testnet", target_block_time |-> 15,
     difficulty_adjustment_interval |-> 2016,
     min_difficulty_bits |-> Compact(30, 65535),
     subsidy_halving_interval |-> 2100000,
     initial_block_subsidy |-> InitialBlockSubsidy]
regtest ==
    [network |-> "Regtest", target_block_time |-> 15,
     difficulty_adjustment_interval |-> 144,
     min_difficulty_bits |-> Compact(32, 8388607),
     subsidy_halving_interval |-> 150,
     initial_block_subsidy |-> InitialBlockSubsidy]
ConsensusParams == {mainnet, testnet, regtest}

\* x >> n on a u64.  Every call here has n < 64; an amount of 64 or more
\* panics under overflow checks and is masked to its low six bits without.
Shr64(x, n) == ShrBits(x, n % 64)

\* the halving cut-off one halving late (mutation of get_block_subsidy)
\* mining/src/lib.rs serialize_script_int: the bytes of n, least significant
\* first, as many as n needs; one zero byte for 0
RECURSIVE serialize_script_int(_)
serialize_script_int(n) ==
    IF n = 0 THEN <<0>>
    ELSE IF n < 256 THEN <<n>>
    ELSE <<n % 256>> \o serialize_script_int(n \div 256)

create_p2pkh_script(address) == <<118, 169, 20>> \o address \o <<136, 172>>

\* create_job's coinbase: version, input count, previous hash and index,
\* script length, the height script and the extranonce placeholder that
\* fills the script up to 32 bytes, sequence, output count, value, output
\* script length and script, lock time
create_job_coinbase(height, total_reward, mining_address) ==
    LET height_script == serialize_script_int(height)
        extranonce_padding == Zeros(32 - Len(height_script))
        script == create_p2pkh_script(mining_address)
    IN FromInt(1, 4) \o <<1>> \o Zeros(32) \o <<255, 255, 255, 255>>
       \o <<32>> \o height_script \o extranonce_padding
       \o <<255, 255, 255, 255>>
       \o <<1>> \o total_reward \o <<Len(script)>> \o script \o FromInt(0, 4)

\* process_submission: `let script_pos = 42`, and the loop that writes
\* extra_nonce2 over the clone of the job's coinbase from there on, as far as
\* the coinbase reaches
script_pos == 42
splice_extra_nonce2(coinbase_tx, extra_nonce2) ==
    Bytes([i \in 1..Len(coinbase_tx) |->
              IF i - 1 >= script_pos /\ i - 1 - script_pos < Len(extra_nonce2)
              THEN extra_nonce2[i - script_pos] ELSE coinbase_tx[i]])

\* the halving cut-off one halving late (mutation of get_block_subsidy)
get_block_subsidy_late_cutoff(params, height) ==
    LET halvings == height \div params.subsidy_halving_interval IN
    IF halvings > 64 THEN Zeros(8)
    ELSE Shr64(params.initial_block_subsidy, halvings)

get_block_subsidy(params, height) ==
    LET halvings == height \div params.subsidy_halving_interval IN
    IF halvings >= 64 THEN Zeros(8)
    ELSE Shr64(params.initial_block_subsidy, halvings)

\* mining/src/lib.rs: the job builder's own copy of the schedule
calculate_block_reward(height) ==
    LET initial_subsidy == Resize(MulSmall(FromInt(50000, 8), 1000000), 8)
        halving_interval == 2100000
        halvings == height \div halving_interval
    IN IF halvings >= 64 THEN Zeros(8)
       ELSE Shr64(initial_subsidy, halvings)

-----------------------------------------------------------------------------
(* The block validator (consensus/src/lib.rs, ConsensusEngine) *)

InvalidProofOfWork == "InvalidProofOfWork"
InvalidDifficulty == "InvalidDifficulty"
InvalidCoinbase == "InvalidCoinbase"
NoTransactions == "NoTransactions"
KawpowError == "KawpowError"

\* difficulty::bits_to_target and difficulty::hash_to_u256 of lib.rs.  A
\* [u8; 32] of the code is a tuple here: index i of the array is index i + 1.
\* the shift loop of bits_to_target for an exponent below 3
RECURSIVE ShiftDown(_, _, _)
ShiftDown(target, exponent, i) ==
    IF i < 0 THEN target
    ELSE ShiftDown([target EXCEPT ![i + 3 - exponent + 1] = target[i + 1],
                                  ![i + 1] = 0],
                   exponent, i - 1)

bits_to_target(bits) ==
    LET exponent == Exponent(bits)
        mantissa == Mantissa(bits)
        mantissa_bytes == <<(mantissa \div 65536) % 256, (mantissa \div 256) % 256,
                            mantissa % 256>>
    IN IF exponent >= 3
       THEN IF exponent > 32 THEN Panic   \* 32 - exponent: the slice is out of range
            ELSE Returns(Bytes([i \in 1..32 |->
                     IF i - 1 >= 32 - exponent /\ i - 1 < 32 - exponent + 3
                     THEN mantissa_bytes[i - (32 - exponent)] ELSE 0]))
       ELSE Returns(ShiftDown(Bytes([i \in 1..32 |->
                                  IF i >= 30 THEN mantissa_bytes[i - 29] ELSE 0]),
                              exponent, 28))

hash_to_u256(hash) == Bytes([i \in 1..32 |-> hash[32 - (i - 1)]])

\* a <= b on [u8; 32]: arrays are ordered lexicographically from index 0
RECURSIVE ArrayLeqFrom(_, _, _)
ArrayLeqFrom(a, b, i) ==
    IF i > Len(a) THEN TRUE
    ELSE IF a[i] # b[i] THEN a[i] < b[i]
    ELSE ArrayLeqFrom(a, b, i + 1)
ArrayLeq(a, b) == ArrayLeqFrom(a, b, 1)

\* A header is [height, bits, pow]: pow is what verify_kawpow returns for the
\* header's nonce, Err(e) or Ok(hash) with the 32 bytes of the final hash.
KawpowOk(hash) == [ok |-> TRUE, hash |-> hash]
KawpowErr == [ok |-> FALSE, hash |-> <<>>]

validate_pow(header) ==
    IF ~header.pow.ok THEN Returns(KawpowError)
    ELSE LET target == bits_to_target(header.bits)
             hash_value == hash_to_u256(header.pow.hash)
         IN IF ~Returned(target) THEN Panic
            ELSE IF ArrayLeq(hash_value, target.value) THEN Returns(Ok)
            ELSE Returns(InvalidProofOfWork)

validate_difficulty(params, header, prev_header) ==
    IF header.height % params.difficulty_adjustment_interval = 0
    THEN IF header.bits < params.min_difficulty_bits THEN InvalidDifficulty ELSE Ok
    ELSE IF header.bits # prev_header.bits THEN InvalidDifficulty ELSE Ok

\* An input is "coinbase" (null txid, vout 0xffffffff) or "spend".
is_coinbase(tx) == Len(tx.inputs) = 1 /\ tx.inputs[1] = "coinbase"

\* coinbase_output_value += output.value, over the outputs in order: on
\* overflow the addition panics under overflow checks and wraps without
RECURSIVE SumOutputs(_, _, _, _)
SumOutputs(outputs, i, acc, overflow_checks) ==
    IF i > Len(outputs) THEN Returns(acc)
    ELSE LET s == Sum(acc, outputs[i]) IN
         IF s[9] # 0 /\ overflow_checks THEN Panic
         ELSE SumOutputs(outputs, i + 1, Resize(s, 8), overflow_checks)

\* mining/src/cpu.rs, the solution test of the mining loop: is_valid after
\* `for i in (0..32).rev()` over the hash and the job's target
RECURSIVE is_valid(_, _, _)
is_valid(hash_bytes, target, i) ==
    IF i < 0 THEN TRUE
    ELSE IF hash_bytes[i + 1] < target[i + 1] THEN TRUE
    ELSE IF hash_bytes[i + 1] > target[i + 1] THEN FALSE
    ELSE is_valid(hash_bytes, target, i - 1)

None == [none |-> TRUE]

validate_block(params, block, prev_header, overflow_checks) ==
    IF validate_pow(block.header) # Returns(Ok) THEN validate_pow(block.header)
    ELSE IF prev_header # None
            /\ validate_difficulty(params, block.header, prev_header) # Ok
    THEN Returns(validate_difficulty(params, block.header, prev_header))
    ELSE IF block.transactions = <<>> THEN Returns(NoTransactions)
    ELSE LET coinbase == block.transactions[1] IN
         IF ~is_coinbase(coinbase) THEN Returns(InvalidCoinbase)
         ELSE LET subsidy == get_block_subsidy(params, block.header.height)
                  total_fees == Zeros(8)
                  coinbase_output_value ==
                      SumOutputs(coinbase.outputs, 1, Zeros(8), overflow_checks)
              IN IF ~Returned(coinbase_output_value) THEN Panic
                 ELSE IF Less(Resize(Sum(subsidy, total_fees), 8),
                              coinbase_output_value.value)
                 THEN Returns(InvalidCoinbase)
                 ELSE Returns(Ok)

-----------------------------------------------------------------------------
(* UTXOSet::prune (core/src/utxo.rs): the set after it and the count it      *)
(* returns, for a set built with pruning_enabled and given pruning_height by *)
(* set_pruning_height.                                                       *)

\* a prune whose filter leaves out the coinbase test
prune_coinbase_too(u, pruning_enabled, pruning_height) ==
    IF ~pruning_enabled THEN [utxos |-> u, count |-> 0]
    ELSE LET to_remove == {key \in DOMAIN u : u[key].height < pruning_height}
         IN [utxos |-> [o \in DOMAIN u \ to_remove |-> u[o]],
             count |-> Cardinality(to_remove)]

prune(u, pruning_enabled, pruning_height) ==
    IF ~pruning_enabled THEN [utxos |-> u, count |-> 0]
    ELSE LET to_remove == {key \in DOMAIN u : /\ u[key].height < pruning_height
                                              /\ ~u[key].is_coinbase}
         IN [utxos |-> [o \in DOMAIN u \ to_remove |-> u[o]],
             count |-> Cardinality(to_remove)]

-----------------------------------------------------------------------------
(* Block::validate (core/src/block.rs).  The Merkle root is a function of the *)
(* transactions' ids: it is kept as the list it was computed from.            *)

ExceedsMaximumSize == "ExceedsMaximumSize"
InvalidMerkleRoot == "InvalidMerkleRoot"
InvalidTimestamp == "InvalidTimestamp"
MissingCoinbase == "InvalidCoinbase(Missing coinbase transaction)"
FirstNotCoinbase == "InvalidCoinbase(First transaction must be coinbase)"
NoInputs == "InvalidTransaction(NoInputs)"
NoOutputs == "InvalidTransaction(NoOutputs)"

calculate_merkle_root(block) == [merkle_of |-> block.transactions]

\* TransactionInput as far as Block::validate and is_coinbase read it: the
\* txid [0; 32] is 0, prev_vout is its four bytes
NullVout == <<255, 255, 255, 255>>
\* TransactionInput::is_coinbase and Transaction::is_coinbase
input_is_coinbase(input) == input.prev_txid = 0 /\ input.prev_vout = NullVout
transaction_is_coinbase(tx) ==
    Len(tx.inputs) = 1 /\ input_is_coinbase(tx.inputs[1])

\* the loop over the transactions, from the i-th on
RECURSIVE ValidateTransactions(_, _)
ValidateTransactions(transactions, i) ==
    IF i > Len(transactions) THEN Ok
    ELSE LET tx == transactions[i] IN
         IF i = 1 /\ (Len(tx.inputs) # 1 \/ tx.inputs[1].prev_txid # 0)
         THEN FirstNotCoinbase
         ELSE IF i # 1 /\ tx.inputs = <<>> THEN NoInputs
         ELSE IF tx.outputs = <<>> THEN NoOutputs
         ELSE ValidateTransactions(transactions, i + 1)

\* now is Utc::now() in seconds
validate(block, max_block_size, now) ==
    LET estimated_size == 80 + Len(block.transactions) * 250 IN
    IF estimated_size > max_block_size THEN ExceedsMaximumSize
    ELSE IF calculate_merkle_root(block) # block.header.merkle_root
    THEN InvalidMerkleRoot
    ELSE IF block.header.timestamp > now + 7200 THEN InvalidTimestamp
    ELSE IF block.transactions = <<>> THEN MissingCoinbase
    ELSE ValidateTransactions(block.transactions, 1)

-----------------------------------------------------------------------------
(* KAWPOW (consensus/src/kawpow.rs, and the kawpow module inside             *)
(* consensus/src/lib.rs).  Keccak-256 and the dataset accesses are functions *)
(* of their inputs and nothing else: a digest is the record of what was      *)
(* hashed, so that two digests are equal exactly when their inputs are.      *)

Keccak256(data) == [keccak256 |-> data]

KawpowParams == {[epoch_length |-> 7500], [epoch_length |-> 100]}
get_epoch(params, height) == height \div params.epoch_length
\* the light cache is generated from the epoch's seed
get_light_cache(epoch) == [light_cache |-> epoch]
\* the loop over params.dataset_accesses: fnv_hash_merge of the items the
\* running mix selects from the light cache
DatasetAccesses(mix_hash, light_cache) == [merged |-> mix_hash, cache |-> light_cache]

\* `let mut header_bytes = [0u8; 80]` and the slice 76..84 the nonce is written to
HeaderBytesLen == 80
NonceSliceEnd == 84

\* kawpow.rs, KawpowContext::compute_hash
compute_hash(params, header, nonce, height) ==
    LET epoch == get_epoch(params, height)
        light_cache == get_light_cache(epoch)
        header_bytes == [version |-> header.version,
                         prev_block_hash |-> header.prev_block_hash,
                         merkle_root |-> header.merkle_root,
                         timestamp |-> header.timestamp,
                         bits |-> header.bits,
                         nonce |-> nonce]
    IN IF NonceSliceEnd > HeaderBytesLen THEN Panic   \* slice end out of range
       ELSE LET header_hash == Keccak256(header_bytes)
                mix_hash == DatasetAccesses(header_hash, light_cache)
                final_hash == Keccak256(mix_hash)
            IN Returns([ok |-> TRUE, mix |-> mix_hash, hash |-> final_hash])

\* kawpow.rs, verify_kawpow: the header is rebuilt from prev_hash and nonce
verify_kawpow(params, prev_hash, height, nonce, mix_hash) ==
    LET epoch == get_epoch(params, height)
        light_cache == get_light_cache(epoch)
        header_bytes == [version |-> 0, prev_block_hash |-> prev_hash,
                         merkle_root |-> 0, timestamp |-> 0, bits |-> 0,
                         nonce |-> nonce]
    IN IF NonceSliceEnd > HeaderBytesLen THEN Panic   \* slice end out of range
       ELSE LET header_hash == Keccak256(header_bytes)
                computed_mix == DatasetAccesses(header_hash, light_cache)
            IN IF mix_hash # computed_mix THEN Returns(KawpowErr)
               ELSE Returns(KawpowOk(Keccak256(computed_mix)))

\* `let mut mix_hash = [0u8; 32]`, the `[u8; 64]` of a dataset item, and the
\* 32 bytes of the parent `&cache[parent_offset..parent_offset + 32]`
MixLen == 32
ItemLen == 64
ParentLen == 32
\* the loops `for i in 0..dataset_accesses` (64 on the main network) and
\* `for i in 0..64` of calculate_dataset_item
AccessIndices == 0..63

\* LittleEndian::read_u32(&buf[start..start + 4]) and write_u32 on the same
\* slice, of a buffer of `len` bytes: the bytes touched
read_u32(len, start) ==
    IF start + 4 > len THEN Panic   \* slice end out of range
    ELSE Returns(start..(start + 3))

\* fnv_hash_merge on buffers of these lengths, from its turn i on
RECURSIVE FnvHashMergeFrom(_, _, _, _)
FnvHashMergeFrom(out_len, input_len, offset, i) ==
    IF i = 32 THEN Returns(out_len)
    ELSE LET idx == (offset + i) % 32 IN
         IF ~Returned(read_u32(out_len, idx)) \/ ~Returned(read_u32(input_len, i))
         THEN Panic
         ELSE FnvHashMergeFrom(out_len, input_len, offset, i + 1)
fnv_hash_merge(out_len, input_len, offset) ==
    FnvHashMergeFrom(out_len, input_len, offset, 0)

\* lib.rs, kawpow::verify_kawpow
kawpow_verify_kawpow(params, prev_hash, height, nonce, mix_hash) ==
    Returns(KawpowOk(Keccak256([prev_hash |-> prev_hash, height |-> height,
                                nonce |-> nonce, mix_hash |-> mix_hash])))

-----------------------------------------------------------------------------
(* The difficulty module inside consensus/src/lib.rs: the retarget.  A target *)
(* has its most significant byte first.                                       *)

\* u16 arithmetic: a result above 0xffff panics under overflow checks and
\* wraps without.  -1 stands for the panic.
U16(n, overflow_checks) ==
    IF n < 65536 THEN n ELSE IF overflow_checks THEN -1 ELSE n % 65536

\* the multiplication loop, from array index i down to 0
RECURSIVE MultiplyLoop(_, _, _, _, _, _)
MultiplyLoop(target, bn_new, factor, carry, i, overflow_checks) ==
    IF i < 0 THEN Returns(bn_new)
    ELSE LET product == U16(target[i + 1] * factor, overflow_checks)
             temp == IF product < 0 THEN -1 ELSE U16(product + carry, overflow_checks)
         IN IF temp < 0 THEN Panic
            ELSE MultiplyLoop(target, [bn_new EXCEPT ![i + 1] = temp % 256], factor,
                              temp \div 256, i - 1, overflow_checks)

\* the division loop, from array index i up to 31
RECURSIVE DivideLoop(_, _, _, _, _)
DivideLoop(bn_new, divisor, remainder, i, overflow_checks) ==
    IF i > 31 THEN Returns(bn_new)
    ELSE LET shifted == U16(remainder * 256, overflow_checks)
             temp == IF shifted < 0 THEN -1
                     ELSE U16(shifted + bn_new[i + 1], overflow_checks)
         IN IF temp < 0 \/ divisor = 0 THEN Panic
            ELSE DivideLoop([bn_new EXCEPT ![i + 1] = (temp \div divisor) % 256],
                            divisor, temp % divisor, i + 1, overflow_checks)

\* "Convert back to bits format": exponent and mantissa from the first
\* non-zero byte of the array
target_to_bits(bn_new) ==
    LET nz == {i \in 0..31 : bn_new[i + 1] # 0} IN
    IF nz = {} THEN 0
    ELSE LET i == CHOOSE j \in nz : \A k \in nz : j <= k
             exponent == 32 - i
             mantissa == IF i <= 29
                         THEN bn_new[i + 1] * 65536 + bn_new[i + 2] * 256 + bn_new[i + 3]
                         ELSE IF i = 30
                         THEN bn_new[i + 1] * 65536 + bn_new[i + 2] * 256
                         ELSE bn_new[i + 1] * 65536
         IN IF (mantissa \div 8388608) % 2 # 0
            THEN Compact(exponent + 1, (mantissa \div 256) % 16777216)
            ELSE Compact(exponent, mantissa % 16777216)

\* lines 306-370: the new bits before the minimum-difficulty clamp
next_bits(prev_bits, actual_timespan, target_timespan, overflow_checks) ==
    LET low == target_timespan \div 4
        high == target_timespan * 4
        adjusted_timespan ==
            LET a == IF actual_timespan < low THEN low ELSE actual_timespan
            IN IF a > high THEN high ELSE a
        target == bits_to_target(prev_bits)
    IN IF ~Returned(target) THEN Panic
       ELSE LET multiplied == MultiplyLoop(target.value, Zeros(32),
                                           adjusted_timespan % 65536, 0, 31,
                                           overflow_checks)
            IN IF ~Returned(multiplied) THEN Panic
               ELSE LET divided == DivideLoop(multiplied.value,
                                              target_timespan % 65536, 0, 0,
                                              overflow_checks)
                    IN IF ~Returned(divided) THEN Panic
                       ELSE Returns(target_to_bits(divided.value))

calculate_next_difficulty(prev_bits, actual_timespan, target_timespan, min_difficulty_bits, overflow_checks) ==
    LET new_bits == next_bits(prev_bits, actual_timespan, target_timespan,
                              overflow_checks)
    IN IF ~Returned(new_bits) THEN Panic
       ELSE IF new_bits.value > min_difficulty_bits THEN new_bits
       ELSE Returns(min_difficulty_bits)

-----------------------------------------------------------------------------
(* consensus/src/difficulty.rs *)

MIN_DIFFICULTY_BITS == Compact(31, 65535)
MAX_ADJUSTMENT_PERCENT == 50
TARGET_BLOCK_TIME == 15
DIFFICULTY_ADJUSTMENT_WINDOW == 60

\* The body computes in u32 what the signature returns as u64.  shift_bits is
\* the width the shift is done in: 32 if the u32 result is widened, 64 if the
\* mantissa is widened first.  A left shift by the width or more panics under
\* overflow checks and is masked to the width without; bits shifted out of
\* the top are lost either way.
get_difficulty_for_bits(bits, profile) ==
    LET exponent == Exponent(bits)
        mantissa == FromInt(Mantissa(bits), profile.shift_bits \div 8)
    IN IF exponent <= 3
       THEN Returns(Resize(ShrBytes(mantissa, 3 - exponent), 8))
       ELSE LET amount == 8 * (exponent - 3) IN
            IF amount >= profile.shift_bits /\ profile.overflow_checks THEN Panic
            ELSE Returns(Resize(ShlBytes(mantissa, (amount % profile.shift_bits) \div 8),
                                8))

\* the loop "while size > 0x00ffffff { size >>= 8; exponent += 1 }"
RECURSIVE SizeExponent(_, _)
SizeExponent(size, exponent) ==
    IF Less(FromInt(16777215, 8), size)
    THEN SizeExponent(ShrBytes(size, 1), exponent + 1)
    ELSE exponent

get_bits_for_difficulty(difficulty) ==
    LET exponent == SizeExponent(difficulty, 0)
        mantissa == IF exponent <= 3
                    THEN Resize(ShlBytes(difficulty, 3 - exponent), 4)
                    ELSE Resize(ShrBytes(difficulty, exponent - 3), 4)
    IN Compact(exponent + 3, mantissa[1] + mantissa[2] * 256 + mantissa[3] * 65536)

\* TARGET_BLOCK_TIME / average_block_time, limited to [1/1.5, 1.5], as a double
adjustment_factor(average_block_time) ==
    LET hundred == 100 IN
    IF average_block_time = 0
          \/ TARGET_BLOCK_TIME * hundred
                 > (hundred + MAX_ADJUSTMENT_PERCENT) * average_block_time
    THEN F64Div(hundred + MAX_ADJUSTMENT_PERCENT, hundred)
    ELSE IF TARGET_BLOCK_TIME * (hundred + MAX_ADJUSTMENT_PERCENT)
                 < hundred * average_block_time
    THEN F64Div(hundred, hundred + MAX_ADJUSTMENT_PERCENT)
    ELSE F64Div(TARGET_BLOCK_TIME, average_block_time)

Min(a, b) == IF a <= b THEN a ELSE b

\* prev_timestamp is never read.  The debug! line decodes the new bits only
\* when the logger takes debug records (profile.log_debug).
calculate_next_difficulty_window(prev_bits, blocks_since_adjustment, average_block_time, profile) ==
    LET current_difficulty == get_difficulty_for_bits(prev_bits, profile) IN
    IF ~Returned(current_difficulty) THEN Panic
    ELSE IF blocks_since_adjustment # 0
            /\ blocks_since_adjustment % DIFFICULTY_ADJUSTMENT_WINDOW # 0
    THEN Returns(prev_bits)
    ELSE LET new_difficulty == F64MulToU64(current_difficulty.value,
                                           adjustment_factor(average_block_time))
             new_bits == Min(get_bits_for_difficulty(new_difficulty),
                             MIN_DIFFICULTY_BITS)
         IN IF profile.log_debug /\ ~Returned(get_difficulty_for_bits(new_bits, profile))
            THEN Panic
            ELSE Returns(new_bits)

-----------------------------------------------------------------------------
(* The consensus functions are pure: a behaviour draws one call and the build *)
(* it runs in, and the action of that function applies it.                    *)

MaxHalvings == 65          \* subsidy heights run up to this many halvings
MaxCoinbaseOutputs == 2    \* outputs of a coinbase transaction
MaxWindows == 2            \* retarget windows covered by heights and block counts
MaxSlowdown == 10          \* timespans run up to this multiple of the expected one

Builds ==
    [overflow_checks : BOOLEAN, shift_bits : {32, 64}, log_debug : BOOLEAN,
     kawpow : {"lib.rs", "kawpow.rs"}, stratum : {"first", "second"}]
\* the builds that differ for a function: shift_bits and log_debug are read
\* by consensus/src/difficulty.rs only, and only verify_kawpow depends on
\* which of the two kawpow modules that lib.rs declares the build keeps
\* which of the two definitions of the session's handlers that
\* mining/src/stratum.rs holds the build keeps matters to the Stratum server only
ConsensusBuilds == {b \in Builds : b.stratum = "first"}
BuildsOf(name) ==
    IF name = "calculate_next_difficulty_window"
    THEN {b \in ConsensusBuilds : b.kawpow = "lib.rs"}
    ELSE IF name = "test_difficulty_conversion"
    THEN {b \in ConsensusBuilds : ~b.log_debug /\ b.kawpow = "lib.rs"}
    ELSE IF name = "verify_kawpow"
    THEN {b \in ConsensusBuilds : b.overflow_checks /\ b.shift_bits = 32 /\ ~b.log_debug}
    ELSE {b \in ConsensusBuilds : b.shift_bits = 32 /\ ~b.log_debug /\ b.kawpow = "lib.rs"}

SubsidyHeights(interval) ==
    UNION {{k * interval, k * interval + interval - 1} : k \in 0..MaxHalvings}

\* values of coinbase outputs: nothing, one unit, the full subsidy, u64::MAX
CoinValues == {Zeros(8), FromInt(1, 8), InitialBlockSubsidy, U64Max}
CoinbaseOutputLists == UNION {[1..k -> CoinValues] : k \in 0..MaxCoinbaseOutputs}
FirstTransactions ==
    [inputs : {<<"coinbase">>, <<"spend">>, <<"coinbase", "spend">>},
     outputs : CoinbaseOutputLists, fee : {0}]
\* a later transaction, paying a fee of 1000
PayingTransaction ==
    [inputs |-> <<"spend">>, outputs |-> <<FromInt(1, 8)>>, fee |-> 1000]
TransactionLists ==
    {<<>>} \cup {<<tx>> \o rest : tx \in FirstTransactions,
                                  rest \in {<<>>, <<PayingTransaction>>}}

\* bits a header may carry
HeaderBits ==
    {Compact(29, 65535), Compact(30, 65535), Compact(31, 65535), Compact(32, 8388607)}
WindowHeights(interval) ==
    UNION {{w * interval, w * interval + 1, w * interval + interval - 1}
              : w \in 0..(MaxWindows - 1)}

\* hashes: the least, the greatest, a one in the first or the last byte, and
\* the bytes of each target in either byte order
ZeroHash == Zeros(32)
FullHash == Bytes([i \in 1..32 |-> 255])
PowBits == HeaderBits \cup {Compact(3, 65535), Compact(4, 4660), Compact(28, 1193046)}
Hashes ==
    {ZeroHash, FullHash, Bytes([i \in 1..32 |-> IF i = 1 THEN 1 ELSE 0]),
     Bytes([i \in 1..32 |-> IF i = 32 THEN 1 ELSE 0])}
    \cup {bits_to_target(b).value : b \in PowBits}
    \cup {hash_to_u256(bits_to_target(b).value) : b \in PowBits}
\* the job's target is handed to create_job by its caller: the array of
\* bits_to_target, or the same number with its least significant byte first
JobTargets(bits) ==
    {bits_to_target(bits).value, hash_to_u256(bits_to_target(bits).value)}

\* process_submission calls verify_kawpow(context, header, height, target)
\* for a bool; the sources hold no function of that shape.  It is the
\* codec's hash_meets_target on the header's final hash: the two arrays
\* compared as big-endian numbers
hash_meets_target(hash, target) == ArrayLeq(hash, target)

\* process_submission from the proof-of-work test on: a valid header is built
\* into a block and handed to new_block_callback, and Ok(is_valid) returns
Verified(valid, block, coinbase_tx) ==
    [res |-> IF valid THEN "Ok(true)" ELSE "Ok(false)",
     found |-> IF valid THEN <<block>> ELSE <<>>,
     coinbase_tx |-> coinbase_tx]

\* handle_submit's counters, by what process_submission returned
Counted(state, res) ==
    IF res = "Ok(true)" THEN [state EXCEPT !.shares_accepted = @ + 1]
    ELSE [state EXCEPT !.shares_rejected = @ + 1]

\* heights whose script takes one, two and three bytes, and the extranonces a
\* miner may send in mining.submit: hex of any length
SpliceHeights == {0, 1, 255, 256, 65535, 65536}
ExtraNonce2Lengths == {0, 4, 8, 29, 31, 32, 40}
ExtraNonces2 == {Bytes([i \in 1..n |-> 170]) : n \in ExtraNonce2Lengths}

\* targets looser than the network's: those of easier bits
ShareTargets(bits) ==
    {bits_to_target(b).value :
        b \in {c \in PowBits : ~ArrayLeq(bits_to_target(c).value,
                                         bits_to_target(bits).value)}}
\* a job as far as the proof-of-work test reads it: create_job stores the
\* bits and the target its caller hands it; the pool's refresh task hands
\* the best block's bits and `[0u8; 32]`
SubmissionJobs(bits) ==
    [bits : {bits},
     target : {ZeroHash, bits_to_target(bits).value} \cup ShareTargets(bits)]

\* headers as far as KAWPOW reads them, and the mixes a caller may claim: the
\* mixes of the dataset accesses over these headers and the first two epochs
KawpowHeaders ==
    [version : {0, 1}, prev_block_hash : {0, 1}, merkle_root : {0, 1},
     timestamp : {0}, bits : {0}]
ClaimedMixes ==
    {DatasetAccesses(Keccak256([version |-> h.version,
                                prev_block_hash |-> h.prev_block_hash,
                                merkle_root |-> h.merkle_root,
                                timestamp |-> h.timestamp,
                                bits |-> h.bits, nonce |-> n]),
                     get_light_cache(e))
        : h \in {k \in KawpowHeaders : k.merkle_root = k.version},
          n \in {0}, e \in {0, 1}}

\* blocks handed to Block::validate: up to two transactions with or without
\* inputs and outputs, a Merkle root that is theirs or another list's, a
\* timestamp at or past the two hours allowed, and a size limit one
\* transaction exceeds
PlainInputs == [prev_txid : {0, 1}, prev_vout : {NullVout, Zeros(4)}]
PlainTransactions ==
    [inputs : {<<>>} \cup {<<input>> : input \in PlainInputs}
                 \cup {<<input, input>> : input \in {[prev_txid |-> 0, prev_vout |-> NullVout]}},
     outputs : {<<>>, <<FromInt(1, 8)>>}]
PlainTransactionLists == UNION {[1..k -> PlainTransactions] : k \in 0..2}
\* UTXO sets handed to prune, as test_pruning builds them: one output per
\* transaction, heights on both sides of the pruning height
MaxPruneEntries == 2
MaxPruneHeight == 2
PruneEntries ==
    [value : {1}, script_pubkey : {TestScript}, height : 0..MaxPruneHeight,
     is_coinbase : BOOLEAN]
PruneSets ==
    UNION {[keys -> PruneEntries] : keys \in SUBSET ((1..MaxPruneEntries) \X {0})}
PruneCalls ==
    [name : {"prune"}, utxos : PruneSets, pruning_enabled : BOOLEAN,
     pruning_height : 0..(MaxPruneHeight + 1)]

ValidateCalls ==
    UNION {[name : {"validate"},
            block : [header : [merkle_root : {[merkle_of |-> txs],
                                              [merkle_of |-> <<PayingTransaction>>]},
                               timestamp : {1000000 + 7200, 1000000 + 7201}],
                     transactions : {txs}],
            max_block_size : {300, 1000000}, now : {1000000}]
              : txs \in PlainTransactionLists}

\* parent bits handed to the difficulty controllers
ParentBits ==
    HeaderBits \cup {Compact(3, 1), Compact(4, 4660), Compact(5, 65535),
                     Compact(6, 65535), Compact(8, 8388607), Compact(28, 1193046),
                     Compact(33, 65535)}
Timespans(expected) ==
    {0, 1, expected \div MaxSlowdown, expected \div 4, expected \div 2, expected,
     expected * 2, expected * 4, expected * MaxSlowdown}
BlockCounts ==
    UNION {{w * DIFFICULTY_ADJUSTMENT_WINDOW, w * DIFFICULTY_ADJUSTMENT_WINDOW + 1,
            w * DIFFICULTY_ADJUSTMENT_WINDOW + DIFFICULTY_ADJUSTMENT_WINDOW - 1}
              : w \in 0..(MaxWindows - 1)}
BlockTimes ==
    {0, 1, TARGET_BLOCK_TIME \div MaxSlowdown,
     10, 11, 14, 15, 16, 18, 20, 22, 23, 60, TARGET_BLOCK_TIME * MaxSlowdown}

\* compact values in normal form: the mantissa's top bit is clear and its
\* leading byte is not zero, under every exponent that places it in 256 bits
NormalMantissas == {32768, 65535, 1193046, 8388607}
NormalBits == {Compact(e, m) : e \in 3..32, m \in NormalMantissas}

Calls ==
    [name : {"test_difficulty_conversion"}, bits : NormalBits]
    \cup
    [name : {"validate_pow"},
     header : [height : {1}, bits : PowBits, pow : {KawpowOk(h) : h \in Hashes} \cup {KawpowErr}]]
    \cup
    ValidateCalls
    \cup
    PruneCalls
    \cup
    [name : {"verify_kawpow"}, params : KawpowParams, header : KawpowHeaders,
     nonce : {0, 1}, height : {0, 100},
     claimed : {m \in ClaimedMixes \X ClaimedMixes : m[1] # m[2]}]
    \cup
    UNION {[name : {"mine_job"}, bits : {b}, target : JobTargets(b), hash : Hashes]
              : b \in PowBits}
    \cup
    [name : {"mix_accesses"}, i : AccessIndices]
    \cup
    [name : {"splice"}, height : SpliceHeights, extra_nonce2 : ExtraNonces2]
    \cup
    UNION {[name : {"create_job"}, params : {p},
            height : SubsidyHeights(p.subsidy_halving_interval)]
              : p \in ConsensusParams}
    \cup
    UNION {[name : {"process_submission"}, job : SubmissionJobs(b),
            share_target : ShareTargets(b), hash : Hashes]
              : b \in PowBits}
    \cup
    [name : {"get_block_subsidy"}, params : ConsensusParams,
     height : UNION {SubsidyHeights(p.subsidy_halving_interval) : p \in ConsensusParams}]
    \cup
    [name : {"calculate_block_reward"},
     height : SubsidyHeights(mainnet.subsidy_halving_interval)]
    \cup
    UNION {[name : {"validate_block"}, params : {p},
            header : [height : {0, p.difficulty_adjustment_interval + 1,
                                p.subsidy_halving_interval,
                                64 * p.subsidy_halving_interval},
                      bits : {p.min_difficulty_bits},
                      pow : {KawpowOk(ZeroHash), KawpowOk(FullHash), KawpowErr}],
            transactions : TransactionLists,
            prev_header : {None} \cup [bits : {p.min_difficulty_bits, Compact(29, 65535)}]]
              : p \in ConsensusParams}
    \cup
    UNION {[name : {"validate_difficulty"}, params : {p},
            header : [height : WindowHeights(p.difficulty_adjustment_interval),
                      bits : HeaderBits, pow : {KawpowOk(ZeroHash)}],
            prev_header : [bits : HeaderBits]]
              : p \in ConsensusParams}
    \cup
    UNION {[name : {"calculate_next_difficulty"}, params : {p},
            prev_bits : ParentBits,
            actual_timespan :
                Timespans(p.target_block_time * p.difficulty_adjustment_interval)]
              : p \in ConsensusParams}
    \cup
    [name : {"calculate_next_difficulty_window"}, prev_bits : ParentBits,
     blocks_since_adjustment : BlockCounts, average_block_time : BlockTimes]

InitConsensus ==
    /\ NewUtxoSet
    /\ IdleNode
    /\ call \in Calls
    /\ build \in BuildsOf(call.name)
    /\ ret = Pending

GetBlockSubsidy ==
    /\ call.name = "get_block_subsidy" /\ ret = Pending
    /\ ret' = Returns(get_block_subsidy(call.params, call.height))
    /\ UNCHANGED <<call, build, utxoVars, nodeVars>>

CalculateBlockReward ==
    /\ call.name = "calculate_block_reward" /\ ret = Pending
    /\ ret' = Returns(calculate_block_reward(call.height))
    /\ UNCHANGED <<call, build, utxoVars, nodeVars>>

ValidateBlock ==
    /\ call.name = "validate_block" /\ ret = Pending
    /\ ret' = validate_block(call.params,
                             [header |-> call.header, transactions |-> call.transactions],
                             call.prev_header, build.overflow_checks)
    /\ UNCHANGED <<call, build, utxoVars, nodeVars>>

ValidateDifficulty ==
    /\ call.name = "validate_difficulty" /\ ret = Pending
    /\ ret' = Returns(validate_difficulty(call.params, call.header, call.prev_header))
    /\ UNCHANGED <<call, build, utxoVars, nodeVars>>

CalculateNextDifficulty ==
    /\ call.name = "calculate_next_difficulty" /\ ret = Pending
    /\ ret' = calculate_next_difficulty(
                  call.prev_bits, call.actual_timespan,
                  call.params.target_block_time
                      * call.params.difficulty_adjustment_interval,
                  call.params.min_difficulty_bits, build.overflow_checks)
    /\ UNCHANGED <<call, build, utxoVars, nodeVars>>

CalculateNextDifficultyWindow ==
    /\ call.name = "calculate_next_difficulty_window" /\ ret = Pending
    /\ ret' = calculate_next_difficulty_window(
                  call.prev_bits, call.blocks_since_adjustment,
                  call.average_block_time, build)
    /\ UNCHANGED <<call, build, utxoVars, nodeVars>>

\* difficulty.rs, tests::test_difficulty_conversion: bits to a difficulty and back
TestDifficultyConversion ==
    /\ call.name = "test_difficulty_conversion" /\ ret = Pending
    /\ ret' = LET difficulty == get_difficulty_for_bits(call.bits, build)
              IN  IF Returned(difficulty)
                  THEN Returns(get_bits_for_difficulty(difficulty.value))
                  ELSE Panic
    /\ UNCHANGED <<call, build, utxoVars, nodeVars>>

ValidatePow ==
    /\ call.name = "validate_pow" /\ ret = Pending
    /\ ret' = validate_pow(call.header)
    /\ UNCHANGED <<call, build, utxoVars, nodeVars>>

Prune ==
    /\ call.name = "prune" /\ ret = Pending
    /\ ret' = Returns(prune(call.utxos, call.pruning_enabled, call.pruning_height))
    /\ UNCHANGED <<call, build, utxoVars, nodeVars>>

Validate ==
    /\ call.name = "validate" /\ ret = Pending
    /\ ret' = Returns(validate(call.block, call.max_block_size, call.now))
    /\ UNCHANGED <<call, build, utxoVars, nodeVars>>

\* compute_hash for a header, then verify_kawpow with each of two claimed
\* mixes, by the kawpow module that the build keeps
VerifyKawpow ==
    /\ call.name = "verify_kawpow" /\ ret = Pending
    /\ ret' = Returns(
          [hashed |-> compute_hash(call.params, call.header, call.nonce, call.height),
           verified |-> [i \in 1..2 |->
               IF build.kawpow = "kawpow.rs"
               THEN verify_kawpow(call.params, call.header.prev_block_hash,
                                  call.height, call.nonce, call.claimed[i])
               ELSE kawpow_verify_kawpow(call.params, call.header.prev_block_hash,
                                         call.height, call.nonce, call.claimed[i])]])
    /\ UNCHANGED <<call, build, utxoVars, nodeVars>>

\* turn i of the dataset accesses of compute_hash and verify_kawpow (the
\* index read from the mix, the merge of the item into the mix) and turn i
\* of calculate_dataset_item (the index read from the item's mix, the merge
\* of the parent into it)
MixAccesses ==
    /\ call.name = "mix_accesses" /\ ret = Pending
    /\ ret' = Returns(
          [index_read |-> read_u32(MixLen, call.i % 32),
           merged |-> fnv_hash_merge(MixLen, ItemLen, 0),
           parent_read |-> read_u32(ItemLen, call.i % 32),
           parent_merged |-> fnv_hash_merge(ItemLen, ParentLen, call.i % 32)])
    /\ UNCHANGED <<call, build, utxoVars, nodeVars>>

\* the miner's test of one verified hash against the job's target
MineJob ==
    /\ call.name = "mine_job" /\ ret = Pending
    /\ ret' = Returns(is_valid(call.hash, call.target, 31))
    /\ UNCHANGED <<call, build, utxoVars, nodeVars>>

\* a submission whose header hashes to call.hash, for the job call.job, from
\* an authorized session: process_submission and handle_submit's counting
ProcessSubmission ==
    /\ call.name = "process_submission" /\ ret = Pending
    /\ LET p == Verified(hash_meets_target(call.hash, call.job.target), call.hash, <<>>)
           state == Counted([shares_accepted |-> 0, shares_rejected |-> 0], p.res)
       IN ret' = Returns([res |-> p.res, callbacks |-> Len(p.found),
                          shares_accepted |-> state.shares_accepted])
    /\ UNCHANGED <<call, build, utxoVars, nodeVars>>

\* create_job at call.height for a manager whose address is zero, then
\* process_submission's splice of call.extra_nonce2 into that job; job is
\* the job's coinbase as the map holds it after the call
Splice ==
    /\ call.name = "splice" /\ ret = Pending
    /\ LET coinbase_tx == create_job_coinbase(call.height,
                                              calculate_block_reward(call.height),
                                              Zeros(20))
       IN ret' = Returns([created |-> coinbase_tx, job |-> coinbase_tx,
                          spliced |-> splice_extra_nonce2(coinbase_tx,
                                                          call.extra_nonce2)])
    /\ UNCHANGED <<call, build, utxoVars, nodeVars>>

\* the coinbase transaction process_submission builds for the block of a
\* valid share: a coinbase input, and one output whose value is read from
\* coinbase_tx[78] to coinbase_tx[85]
assemble_coinbase(coinbase_tx) ==
    [inputs |-> <<"coinbase">>, outputs |-> <<SubSeq(coinbase_tx, 79, 86)>>]

\* create_job at call.height with no transactions (fees 0), on the network of
\* call.params: the value written into the job's coinbase (bytes 79 to 86),
\* and validate_block on the block process_submission assembles from the
\* job for a header whose proof of work verifies
CreateJobReward ==
    /\ call.name = "create_job" /\ ret = Pending
    /\ LET total_reward == calculate_block_reward(call.height)
           coinbase_tx == create_job_coinbase(call.height, total_reward, Zeros(20))
           block == [header |-> [height |-> call.height,
                                 bits |-> call.params.min_difficulty_bits,
                                 pow |-> KawpowOk(ZeroHash)],
                     transactions |-> <<assemble_coinbase(coinbase_tx)>>]
       IN ret' = Returns([written |-> SubSeq(coinbase_tx, 80, 87),
                          assembled |-> block.transactions[1].outputs[1],
                          validated |-> validate_block(call.params, block, None,
                                                       build.overflow_checks)])
    /\ UNCHANGED <<call, build, utxoVars, nodeVars>>

NextConsensus ==
    \/ TestDifficultyConversion
    \/ ValidatePow
    \/ MineJob
    \/ MixAccesses
    \/ Splice
    \/ CreateJobReward
    \/ ProcessSubmission
    \/ VerifyKawpow
    \/ Validate
    \/ Prune
    \/ GetBlockSubsidy
    \/ CalculateBlockReward
    \/ ValidateBlock
    \/ ValidateDifficulty
    \/ CalculateNextDifficulty
    \/ CalculateNextDifficultyWindow

SpecConsensus == InitConsensus /\ [][NextConsensus]_vars

-----------------------------------------------------------------------------
(* Claims about the consensus functions *)

\* the call drawn was `name` and has come back (returned or panicked)
Done(name) == call.name = name /\ ret.state # "pending"
Accepted == Done("validate_block") /\ Returned(ret) /\ ret.value = Ok

\* the exact sum of a list of u64 values
RECURSIVE TotalOf(_, _)
TotalOf(values, i) ==
    IF i > Len(values) THEN Zeros(8) ELSE Sum(values[i], TotalOf(values, i + 1))
\* the fees of the transactions after the first
RECURSIVE FeesOf(_, _)
FeesOf(transactions, i) ==
    IF i > Len(transactions) THEN 0
    ELSE transactions[i].fee + FeesOf(transactions, i + 1)

\* C6: when validate_block returns Ok, the exact sum of the coinbase outputs
\* is at most the subsidy of the block's height plus the fees of the block's
\* other transactions.
C6_CoinbaseWithinSubsidyAndFees ==
    Accepted =>
        Leq(TotalOf(call.transactions[1].outputs, 1),
            Sum(get_block_subsidy(call.params, call.header.height),
                FromInt(FeesOf(call.transactions, 2), 8)))

\* v is initial divided by 2^k, rounded down
HalvedBy(v, initial, k) ==
    /\ Leq(TwiceN(Resize(v, 16), k), initial)
    /\ Less(initial, TwiceN(Resize(Sum(v, FromInt(1, 8)), 16), k))

\* C7: the subsidy is the initial subsidy halved once per completed halving
\* interval while fewer than 64 have passed, is 0 from 64 intervals on, and
\* never grows with the height; the miner's calculate_block_reward likewise.
C7_SubsidySchedule ==
    /\ Done("get_block_subsidy") =>
          LET interval == call.params.subsidy_halving_interval
              h == call.height
          IN /\ Returned(ret)
             /\ h \div interval < 64 =>
                    HalvedBy(ret.value, call.params.initial_block_subsidy,
                             h \div interval)
             /\ h >= 64 * interval => IsZero(ret.value)
             /\ \A h2 \in SubsidyHeights(interval) :
                    /\ h <= h2 => Leq(get_block_subsidy(call.params, h2), ret.value)
                    /\ h2 <= h => Leq(ret.value, get_block_subsidy(call.params, h2))
    /\ Done("calculate_block_reward") =>
          LET interval == mainnet.subsidy_halving_interval
              h == call.height
          IN /\ Returned(ret)
             /\ h \div interval < 64 =>
                    HalvedBy(ret.value, InitialBlockSubsidy, h \div interval)
             /\ h >= 64 * interval => IsZero(ret.value)
             /\ \A h2 \in SubsidyHeights(interval) :
                    /\ h <= h2 => Leq(calculate_block_reward(h2), ret.value)
                    /\ h2 <= h => Leq(ret.value, calculate_block_reward(h2))

C7_Witness ==
    /\ Done("get_block_subsidy")
    /\ call.height >= 3 * call.params.subsidy_halving_interval
    /\ ~IsZero(ret.value)
    /\ Less(ret.value, call.params.initial_block_subsidy)

\* the number a header's PoW is compared with: bits_to_target, read as a
\* number (least significant byte first)
Decodable(bits) == Returned(bits_to_target(bits))
Target(bits) == LET t == bits_to_target(bits).value IN Bytes([i \in 1..32 |-> t[33 - i]])

\* new / prior lies in [den / num, num / den]; below, the 2^-15 that the
\* three-byte mantissa of the compact form may drop is allowed for
RatioWithin(prior, new, num, den) ==
    /\ Leq(MulSmall(new, den), MulSmall(prior, num))
    /\ Leq(MulSmall(MulSmall(prior, den), 32767), MulSmall(MulSmall(new, num), 32768))
\* new is at most prior * den / num
ReducedBy(prior, new, num, den) == Leq(MulSmall(new, num), MulSmall(prior, den))

OnBoundary(count) == count % DIFFICULTY_ADJUSTMENT_WINDOW = 0

\* C8: at a retarget the target of the returned bits is within a factor F of
\* the parent's target (F = 4 in consensus/src/lib.rs, 1.5 in difficulty.rs),
\* and blocks ten times too fast bring it down to the parent's target / F.
C8_RetargetWithinFactor ==
    /\ (/\ Done("calculate_next_difficulty")
        /\ Decodable(call.prev_bits)
        /\ Leq(Target(call.prev_bits), Target(call.params.min_difficulty_bits)))
          => /\ Returned(ret)
             /\ Decodable(ret.value)
             /\ RatioWithin(Target(call.prev_bits), Target(ret.value), 4, 1)
             /\ call.actual_timespan * 10
                   <= call.params.target_block_time
                          * call.params.difficulty_adjustment_interval
                  => ReducedBy(Target(call.prev_bits), Target(ret.value), 4, 1)
    /\ (/\ Done("calculate_next_difficulty_window")
        /\ OnBoundary(call.blocks_since_adjustment)
        /\ Decodable(call.prev_bits)
        /\ Leq(Target(call.prev_bits), Target(MIN_DIFFICULTY_BITS)))
          => /\ Returned(ret)
             /\ Decodable(ret.value)
             /\ RatioWithin(Target(call.prev_bits), Target(ret.value), 3, 2)
             /\ call.average_block_time * 10 <= TARGET_BLOCK_TIME
                  => ReducedBy(Target(call.prev_bits), Target(ret.value), 3, 2)

\* C9: the returned bits decode to a target no larger than the target of the
\* minimum-difficulty bits, and new bits whose target is already no larger
\* are returned as they are.
C9_TargetClampedToMaximum ==
    /\ Done("calculate_next_difficulty") =>
          LET new_bits == next_bits(call.prev_bits, call.actual_timespan,
                                    call.params.target_block_time
                                        * call.params.difficulty_adjustment_interval,
                                    build.overflow_checks)
              max_target == Target(call.params.min_difficulty_bits)
          IN Returned(ret) =>
                /\ Decodable(ret.value)
                /\ Leq(Target(ret.value), max_target)
                /\ (Decodable(new_bits.value) /\ Leq(Target(new_bits.value), max_target))
                      => ret.value = new_bits.value
    /\ (Done("calculate_next_difficulty_window")
            /\ OnBoundary(call.blocks_since_adjustment) /\ Returned(ret))
          => /\ Decodable(ret.value)
             /\ Leq(Target(ret.value), Target(MIN_DIFFICULTY_BITS))

OffBoundary(height, interval) == height % interval # 0

\* C10: off a retarget boundary the bits stay the parent's: validate_difficulty
\* rejects other bits, so does validate_block when it is given the parent, and
\* difficulty.rs's calculate_next_difficulty returns the parent's bits.
C10_BitsKeptOffBoundary ==
    /\ (/\ Done("validate_difficulty")
        /\ OffBoundary(call.header.height, call.params.difficulty_adjustment_interval)
        /\ call.header.bits # call.prev_header.bits)
          => (Returned(ret) /\ ret.value = InvalidDifficulty)
    /\ (/\ Accepted
        /\ "bits" \in DOMAIN call.prev_header
        /\ OffBoundary(call.header.height, call.params.difficulty_adjustment_interval))
          => call.header.bits = call.prev_header.bits
    /\ (/\ Done("calculate_next_difficulty_window")
        /\ ~OnBoundary(call.blocks_since_adjustment))
          => (Returned(ret) /\ ret.value = call.prev_bits)


\* C11: converting a compact value in normal form (mantissa top bit clear,
\* leading mantissa byte not zero, exponent 3..32) to a difficulty and back
\* returns the compact value it started from.
C11_CompactRoundTrip ==
    Done("test_difficulty_conversion") => Returned(ret) /\ ret.value = call.bits

\* the number a [u8; 32] holds when its first byte is the most significant
BigEndian(array) == hash_to_u256(array)
\* m * 256^(e - 3)
CompactValue(bits) == ShlBytes(FromInt(Mantissa(bits), 32), Exponent(bits) - 3)

\* C12: the target check of validate_pow, and the miner's solution test,
\* accept a hash exactly when the hash, read as a 256-bit big-endian unsigned
\* integer, is at most the target m * 256^(e-3) decoded from bits.
C12_PowAcceptsIffAtMostTarget ==
    /\ (Done("validate_pow") /\ call.header.pow.ok)
          => /\ Returned(ret)
             /\ ret.value = Ok
                   <=> Leq(BigEndian(call.header.pow.hash),
                           CompactValue(call.header.bits))
    /\ Done("mine_job")
          => /\ Returned(ret)
             /\ ret.value <=> Leq(BigEndian(call.hash), CompactValue(call.bits))

\* C13: verification agrees with hashing.  When compute_hash returns
\* (mix, final) for a header, nonce and height, verify_kawpow on the header's
\* prev_block_hash, the height and the nonce returns Ok(final) for the claimed
\* mix equal to mix and a verification error for every other claimed mix; so
\* of two different claimed mixes at most one is verified.
C13_VerifyAgreesWithHashing ==
    Done("verify_kawpow") =>
        LET hashed == ret.value.hashed
            verified == ret.value.verified
        IN /\ Returned(hashed) =>
                \A i \in 1..2 :
                    verified[i] = IF call.claimed[i] = hashed.value.mix
                                  THEN Returns(KawpowOk(hashed.value.hash))
                                  ELSE Returns(KawpowErr)
           /\ ~(\A i \in 1..2 : Returned(verified[i]) /\ verified[i].value.ok)

\* the checks of the fixed order that a block handed to validate_block
\* violates, and the error of each
StructuralViolated == call.transactions = <<>>
DifficultyViolated ==
    /\ call.prev_header # None
    /\ validate_difficulty(call.params, call.header, call.prev_header) # Ok
PowViolated == validate_pow(call.header) # Returns(Ok)
\* the same for a block handed to Block::validate
TooLarge == 80 + Len(call.block.transactions) * 250 > call.max_block_size
Empty == call.block.transactions = <<>>
MerkleViolated == calculate_merkle_root(call.block) # call.block.header.merkle_root
TimestampViolated == call.block.header.timestamp > call.now + 7200

\* C14: validation reports the first failure in the order structural, Merkle,
\* timestamp, difficulty, proof of work, coinbase subsidy, transaction
\* inputs: a block that violates several checks gets the error of the
\* earliest one (validate_block reports an empty transaction list as such even
\* when the proof of work is invalid too; Block::validate reports the size,
\* then the Merkle root, the timestamp, the coinbase and the transactions),
\* and a failed validation leaves the UTXO set as it was.
C14_FirstFailureInOrder ==
    /\ (Done("validate_block") /\ Returned(ret))
          => /\ StructuralViolated => ret.value = NoTransactions
             /\ (~StructuralViolated /\ DifficultyViolated)
                   => ret.value = InvalidDifficulty
             /\ (~StructuralViolated /\ ~DifficultyViolated /\ PowViolated)
                   => ret = validate_pow(call.header)
             /\ (~StructuralViolated /\ ~DifficultyViolated /\ ~PowViolated
                                     /\ ret.value # Ok)
                   => ret.value = InvalidCoinbase
             /\ ret.value # Ok => utxos = EmptyMap
    /\ Done("validate")
          => /\ TooLarge => ret.value = ExceedsMaximumSize
             /\ (~TooLarge /\ MerkleViolated) => ret.value = InvalidMerkleRoot
             /\ (~TooLarge /\ ~MerkleViolated /\ TimestampViolated)
                   => ret.value = InvalidTimestamp
             /\ (~TooLarge /\ ~MerkleViolated /\ ~TimestampViolated /\ Empty)
                   => ret.value = MissingCoinbase
             /\ (~TooLarge /\ ~MerkleViolated /\ ~TimestampViolated /\ ~Empty)
                   => ret.value = ValidateTransactions(call.block.transactions, 1)
             /\ ret.value # Ok => utxos = EmptyMap

\* the entries prune is to remove: not coinbase, below the pruning height
Prunable == {key \in DOMAIN call.utxos : /\ ~call.utxos[key].is_coinbase
                                         /\ call.utxos[key].height < call.pruning_height}
PrunedExactly ==
    /\ DOMAIN ret.value.utxos = DOMAIN call.utxos \ Prunable
    /\ \A key \in DOMAIN ret.value.utxos : ret.value.utxos[key] = call.utxos[key]
    /\ ret.value.count = Cardinality(Prunable)

\* C22: prune removes exactly the entries that are not coinbase and whose
\* height is below the pruning height, returns their number, and leaves
\* every other entry in the set unchanged.
C22_PruneRemovesOldNonCoinbase == Done("prune") => PrunedExactly

\* C22, amended: on a set built with pruning enabled, prune removes exactly
\* the entries that are not coinbase and whose height is below the pruning
\* height, returns their number and leaves every other entry unchanged; on a
\* set built with pruning disabled it removes nothing and returns 0.
C22_PruneWhenEnabled ==
    Done("prune")
        => IF call.pruning_enabled THEN PrunedExactly
           ELSE ret.value.utxos = call.utxos /\ ret.value.count = 0

\* a pruned set that held an old spendable entry, an old coinbase entry kept
C22_Witness ==
    /\ Done("prune") /\ call.pruning_enabled
    /\ Prunable # {}
    /\ \E key \in DOMAIN ret.value.utxos :
          /\ ret.value.utxos[key].is_coinbase
          /\ ret.value.utxos[key].height < call.pruning_height
    /\ ret.value.count = 1

\* C23: Block::validate returns InvalidCoinbase for every block with at
\* least one transaction whose first transaction is not a coinbase (exactly
\* one input, with the null txid and prev_vout 0xFFFFFFFF).
C23_FirstMustBeCoinbase ==
    (/\ Done("validate")
     /\ call.block.transactions # <<>>
     /\ ~transaction_is_coinbase(call.block.transactions[1]))
        => ret.value \in {FirstNotCoinbase, MissingCoinbase}

-----------------------------------------------------------------------------
(* Block acceptance: SyncManager::process_new_block (network/src/sync.rs)    *)
(* over MemoryBlockStore (storage/src/lib.rs).  Each store operation takes   *)
(* its lock, acts and releases it, and the task may be suspended at every    *)
(* await between two of them: a step of a task is one lock's critical        *)
(* section.  A hash is a number, [0; 32] is 0.                               *)

\* the chain the peers deliver: block h has height h - 1 and parent h - 1,
\* and carries a coinbase and, after the first, a spend of its parent's coinbase
CoinbaseOf(h) ==
    [txid |-> 2 * h - 1, inputs |-> <<>>,
     outputs |-> <<[value |-> 1, script_pubkey |-> h]>>]
SpendOf(h) ==
    [txid |-> 2 * h, inputs |-> <<<<2 * (h - 1) - 1, 0>>>>,
     outputs |-> <<[value |-> 1, script_pubkey |-> h]>>]
PeerBlock(h) ==
    [hash |-> h, header |-> [height |-> h - 1, prev_block_hash |-> h - 1],
     transactions |-> IF h = 1 THEN <<CoinbaseOf(h)>> ELSE <<CoinbaseOf(h), SpendOf(h)>>]
PeerBlocks == {PeerBlock(h) : h \in 1..MaxPeerBlocks}

SetTask(t, pc, returned) == [tasks EXCEPT ![t].pc = pc, ![t].returned = returned]

\* a peer task receives a block: process_new_block is entered
ReceiveBlock(t, block) ==
    /\ tasks[t].pc = "idle"
    /\ tasks' = [tasks EXCEPT ![t] = [pc |-> "has_block", block |-> block,
                                      returned |-> "none"]]
    /\ UNCHANGED <<blocks, block_hashes, best_block_hash, utxo_set, tx_blocks, block_store>>

\* block_store.has_block(&block_hash): a known block is ignored, Ok(false)
HasBlock(t) ==
    /\ tasks[t].pc = "has_block"
    /\ tasks' = IF tasks[t].block.hash \in DOMAIN blocks
                THEN SetTask(t, "idle", "Ok(false)")
                ELSE SetTask(t, "store_block", "none")
    /\ UNCHANGED <<blocks, block_hashes, best_block_hash, utxo_set, tx_blocks, block_store>>

\* store_block: self.blocks and self.block_hashes are written
StoreBlock(t) ==
    /\ tasks[t].pc = "store_block"
    /\ LET block == tasks[t].block IN
         /\ blocks' = With(blocks, block.hash, block)
         /\ block_hashes' = With(block_hashes, block.header.height, block.hash)
    /\ tasks' = SetTask(t, "store_transactions", "none")
    /\ UNCHANGED <<best_block_hash, utxo_set, tx_blocks, block_store>>

\* store_block: the block's transactions are written under their two locks
RECURSIVE InsertTransactions(_, _, _)
InsertTransactions(map, block, i) ==
    IF i > Len(block.transactions) THEN map
    ELSE InsertTransactions(With(map, block.transactions[i].txid, block.hash),
                            block, i + 1)
StoreTransactions(t) ==
    /\ tasks[t].pc = "store_transactions"
    /\ tx_blocks' = InsertTransactions(tx_blocks, tasks[t].block, 1)
    /\ tasks' = SetTask(t, "store_first", "none")
    /\ UNCHANGED <<blocks, block_hashes, best_block_hash, utxo_set, block_store>>

\* the best block hash store_block leaves, by the store.  MemoryBlockStore
\* and JsonBlockStore: `if height == 0 || self.blocks.read().await.len() == 1`
\* the block becomes the best.  SqliteBlockStore: a block of height 0 becomes
\* the best; another does when the metadata holds no best hash or when its
\* height is above that of the best block.  stored is the block map with
\* the block in it; 0 is no best hash
BestAfterStore(kind, block, stored, best) ==
    IF kind = "SqliteBlockStore"
    THEN IF block.header.height = 0 THEN block.hash
         ELSE IF best = 0 THEN block.hash
         ELSE IF block.header.height > stored[best].header.height THEN block.hash
         ELSE best
    ELSE IF block.header.height = 0 \/ Cardinality(DOMAIN stored) = 1
         THEN block.hash ELSE best

\* store_block, its last step
StoreFirstBlock(t) ==
    /\ tasks[t].pc = "store_first"
    /\ best_block_hash' =
          BestAfterStore(block_store, tasks[t].block, blocks, best_block_hash)
    /\ tasks' = SetTask(t, "get_best_block_height", "none")
    /\ UNCHANGED <<blocks, block_hashes, utxo_set, tx_blocks, block_store>>

\* get_best_block_height, and `if block.header.height > current_best_height`:
\* a best hash that names no stored block is a storage error
GetBestBlockHeight(t) ==
    /\ tasks[t].pc = "get_best_block_height"
    /\ tasks' = IF best_block_hash \notin DOMAIN blocks
                THEN SetTask(t, "idle", "Err(Storage)")
                ELSE IF tasks[t].block.header.height
                          > blocks[best_block_hash].header.height
                THEN SetTask(t, "set_best_block", "none")
                ELSE SetTask(t, "idle", "Ok(true)")
    /\ UNCHANGED <<blocks, block_hashes, best_block_hash, utxo_set, tx_blocks, block_store>>

\* set_best_block(&block_hash)
SetBestBlock(t) ==
    /\ tasks[t].pc = "set_best_block"
    /\ IF tasks[t].block.hash \in DOMAIN blocks
       THEN /\ best_block_hash' = tasks[t].block.hash
            /\ tasks' = SetTask(t, "idle", "Ok(true)")
       ELSE /\ tasks' = SetTask(t, "idle", "Err(Storage)")
            /\ UNCHANGED best_block_hash
    /\ UNCHANGED <<blocks, block_hashes, utxo_set, tx_blocks, block_store>>

InitSync == NewUtxoSet /\ IdleConsensus /\ IdleNode

Receives ==
    /\ \E t \in Tasks, block \in PeerBlocks : ReceiveBlock(t, block)
    /\ UNCHANGED notSyncVars
Checks ==
    /\ \E t \in Tasks : HasBlock(t)
    /\ UNCHANGED notSyncVars
Stores ==
    /\ \E t \in Tasks : StoreBlock(t)
    /\ UNCHANGED notSyncVars
StoresTransactions ==
    /\ \E t \in Tasks : StoreTransactions(t)
    /\ UNCHANGED notSyncVars
StoresFirst ==
    /\ \E t \in Tasks : StoreFirstBlock(t)
    /\ UNCHANGED notSyncVars
ReadsBest ==
    /\ \E t \in Tasks : GetBestBlockHeight(t)
    /\ UNCHANGED notSyncVars
SetsBest ==
    /\ \E t \in Tasks : SetBestBlock(t)
    /\ UNCHANGED notSyncVars

NextSync ==
    \/ Receives
    \/ Checks
    \/ Stores
    \/ StoresTransactions
    \/ StoresFirst
    \/ ReadsBest
    \/ SetsBest

SpecSync == InitSync /\ [][NextSync]_vars

\* BlockStore::store_block as one call, on any of the three stores: the
\* block, its height index and its transactions are written, then the best
\* block hash is decided
store_block(block) ==
    /\ blocks' = With(blocks, block.hash, block)
    /\ block_hashes' = With(block_hashes, block.header.height, block.hash)
    /\ tx_blocks' = InsertTransactions(tx_blocks, block, 1)
    /\ best_block_hash' = BestAfterStore(block_store, block,
                                         With(blocks, block.hash, block),
                                         best_block_hash)
    /\ UNCHANGED <<utxo_set, tasks, block_store>>

\* a competing block at the height of PeerBlock(h)
ForkBlock(h) ==
    [hash |-> MaxPeerBlocks + h,
     header |-> [height |-> h - 1, prev_block_hash |-> h - 1],
     transactions |-> <<CoinbaseOf(MaxPeerBlocks + h)>>]
BlockStores == {"MemoryBlockStore", "JsonBlockStore", "SqliteBlockStore"}

InitStore ==
    /\ NewUtxoSet
    /\ \E kind \in BlockStores : NewBlockStore(kind)
    /\ NewStratumServer
    /\ NewKawpowContext([epoch_length |-> 100])
    /\ NewMiningPool([fee_percent |-> 1, min_payment_threshold |-> 1, max_jobs |-> 1])
    /\ build \in {b \in Builds : /\ b.overflow_checks /\ b.shift_bits = 32
                                /\ ~b.log_debug /\ b.kawpow = "lib.rs"
                                /\ b.stratum = "first"}
    /\ call = [name |-> "none"]
    /\ ret = Pending

StoresPeerBlock ==
    /\ \E block \in PeerBlocks : store_block(block)
    /\ UNCHANGED notSyncVars
StoresForkBlock ==
    /\ \E h \in 1..MaxPeerBlocks : store_block(ForkBlock(h))
    /\ UNCHANGED notSyncVars

NextStore ==
    \/ StoresPeerBlock
    \/ StoresForkBlock

SpecStore == InitStore /\ [][NextStore]_vars

\* C37: no store_block call moves the best block to a lower height: when the
\* best hash names a stored block before the call, it names a stored block
\* of at least that height after it
C37_BestNeverMovesBack ==
    [][(best_block_hash \in DOMAIN blocks) =>
         (best_block_hash' \in DOMAIN blocks'
            /\ blocks'[best_block_hash'].header.height >= blocks[best_block_hash].header.height)]_vars

\* the UTXO set after the chain that ends at `hash` (UTXOSet::process_block,
\* block by block from the first)
RECURSIVE ChainUtxos(_)
ChainUtxos(hash) ==
    IF hash = 0 THEN EmptyMap
    ELSE LET block == PeerBlock(hash) IN
         process_block(ChainUtxos(block.header.prev_block_hash),
                       block.transactions, block.header.height).utxos

\* C15: the best-block pointer and the UTXO set advance together: in every
\* state a reader can observe between two store operations, get_utxo_set
\* returns the UTXO set that results from applying the chain that ends at
\* get_best_block_hash.
C15_TipAndUtxoSetAdvanceTogether ==
    utxo_set = ChainUtxos(best_block_hash)

-----------------------------------------------------------------------------
(* The Stratum server (mining/src/stratum.rs) over the job manager            *)
(* (mining/src/lib.rs).  stratum.rs holds two definitions of the session's    *)
(* handlers, and build.stratum says which of them the build keeps.  The       *)
(* reader task of a connection handles one request at a time: a request is    *)
(* one step.  A hash is a number; the tip's hash is its height.               *)

Sessions == 1..MaxSessions
\* rand::random::<u32>() draws extra_nonce1: two draws may coincide
ExtraNonces == {1, 2}

\* StratumSession::new
NewSession(extra_nonce1) ==
    [worker_name |-> "", extra_nonce1 |-> extra_nonce1, difficulty |-> 1,
     authorized |-> FALSE, shares_accepted |-> 0, shares_rejected |-> 0]

\* StratumServer::handle_connection: the session is created and stored;
\* sessions are numbered in the order the listener accepts them
Connect(s, extra_nonce1) ==
    /\ s = Cardinality(DOMAIN sessions) + 1
    /\ sessions' = With(sessions, s, NewSession(extra_nonce1))
    /\ UNCHANGED <<jobs, job_tips, created_jobs, tip, clock, callbacks, shares, requests, last>>

\* the chain's best block changes
NewTip ==
    /\ tip < MaxTips
    /\ tip' = tip + 1
    /\ UNCHANGED <<jobs, job_tips, created_jobs, clock, sessions, callbacks, shares,
                   requests, last>>

Tick ==
    /\ clock < MaxClock
    /\ clock' = clock + 1
    /\ UNCHANGED <<jobs, job_tips, created_jobs, tip, sessions, callbacks, shares,
                   requests, last>>

\* MiningJobManager::create_job for the best block, as the pool's job task
\* calls it: the id is job_id, the reading of Utc::now() in nanoseconds, the
\* job's time is in seconds, the coinbase holds the height and room for the
\* extranonce; the insert replaces a job of the same id
CreateJobAt(job_id) ==
    /\ Len(created_jobs) < MaxJobs
    /\ LET job == [id |-> job_id, prev_hash |-> tip, height |-> tip + 1,
                   coinbase_tx |-> <<tip + 1>>, time |-> clock, clean_job |-> TRUE]
       IN /\ jobs' = With(jobs, job_id, job)
          /\ job_tips' = With(job_tips, job_id, tip)
          /\ created_jobs' = Append(created_jobs, job_id)
    /\ UNCHANGED <<tip, clock, sessions, callbacks, shares, requests, last>>

\* create_job when every call reads a later time than the calls before it
CreateJob == CreateJobAt(Len(created_jobs) + 1)

\* MiningJobManager::clean_expired_jobs
CleanExpiredJobs(max_age_secs) ==
    /\ jobs' = [j \in {k \in DOMAIN jobs : clock - jobs[k].time < max_age_secs}
                  |-> jobs[j]]
    /\ UNCHANGED <<job_tips, created_jobs, tip, clock, sessions, callbacks, shares,
                   requests, last>>

\* whether the header's hash meets the job's target is a property of the
\* header: here, of its nonce
MeetsTarget(header) == header.nonce = 1

NotProcessed == [res |-> "none", found |-> <<>>, coinbase_tx |-> <<>>]

\* process_submission without the `ok_or_else(.. "Unknown job ID")?` of the
\* lookup: a share for a job that is not in the map counts as valid
process_submission_unchecked(submission) ==
    [res |-> "Ok(true)", found |-> <<>>, coinbase_tx |-> <<>>]

\* MiningJobManager::process_submission: the coinbase is the job's with
\* extra_nonce2 written over it from script_pos on
process_submission(submission) ==
    IF submission.job_id \notin DOMAIN jobs
    THEN [res |-> "Err", found |-> <<>>, coinbase_tx |-> <<>>]
    ELSE LET job == jobs[submission.job_id]
             coinbase_tx == job.coinbase_tx \o <<submission.extra_nonce2>>
             header == [version |-> 1, prev_block_hash |-> job.prev_hash,
                        merkle_root |-> coinbase_tx, timestamp |-> submission.time,
                        nonce |-> submission.nonce, height |-> job.height]
         IN Verified(MeetsTarget(header),
                     [header |-> header, transactions |-> <<coinbase_tx>>],
                     coinbase_tx)

\* messages a handler sends on the session's channel; last.sent holds those
\* of the latest request
Response(outcome, code, message) ==
    [method |-> "response", result |-> outcome, code |-> code, message |-> message,
     job |-> 0]
Notification(method, job) ==
    [method |-> method, result |-> "null", code |-> 0, message |-> "", job |-> job]

\* what a handler did: the session's state after it, the messages it sent,
\* what process_submission returned to it, and its own return value
Handled(state, sent, p, returns) ==
    [session |-> state, sent |-> sent, p |-> p, returns |-> returns]

\* handle_submit, first definition
handle_submit(state, params) ==
    IF ~state.authorized THEN Handled(state, <<>>, NotProcessed, "Err(Authentication)")
    ELSE IF ~params.complete \/ ~params.hex
    THEN Handled(state, <<>>, NotProcessed, "Err(Protocol)")
    ELSE LET p == process_submission(params.share) IN
         IF p.res = "Err"
         THEN Handled(state, <<Response("false", 21, "Share rejected")>>, p, "Ok")
         ELSE Handled(Counted(state, p.res),
                      <<IF p.res = "Ok(true)" THEN Response("true", 0, "")
                        ELSE Response("false", 21, "Share rejected")>>,
                      p, "Ok")

\* handle_submit, second definition
handle_submit_second(state, params) ==
    IF ~params.complete
    THEN Handled(state, <<Response("null", 21, "Invalid parameters for submit")>>,
                 NotProcessed, "Ok")
    ELSE IF ~params.hex THEN Handled(state, <<>>, NotProcessed, "Err(Protocol)")
    ELSE LET p == process_submission(params.share) IN
         IF p.res = "Err"
         THEN Handled(Counted(state, p.res),
                      <<Response("null", 20, "Share validation error")>>, p, "Ok")
         ELSE Handled(Counted(state, p.res),
                      <<Response(IF p.res = "Ok(true)" THEN "true" ELSE "false", 0, "")>>,
                      p, "Ok")

\* send_job picks jobs.values().max_by_key(|job| job.time): among jobs of the
\* latest time the map's iteration order decides
LatestJobs ==
    IF DOMAIN jobs = {} THEN {0}
    ELSE {j \in DOMAIN jobs : \A k \in DOMAIN jobs : jobs[k].time <= jobs[j].time}

\* handle_authorize, first definition, with send_set_difficulty and send_job
handle_authorize(state, params, job) ==
    IF ~params.named THEN Handled(state, <<>>, NotProcessed, "Err(Protocol)")
    ELSE Handled([state EXCEPT !.worker_name = "worker", !.authorized = TRUE,
                               !.difficulty = 1],
                 <<Response("true", 0, ""), Notification("mining.set_difficulty", 0)>>
                     \o (IF job = 0 THEN <<>> ELSE <<Notification("mining.notify", job)>>),
                 NotProcessed, "Ok")

\* handle_authorize, second definition: no job is sent (`TODO: Send actual job`)
handle_authorize_second(state, params) ==
    IF ~params.named
    THEN Handled(state, <<Response("null", 21, "Invalid parameters for authorize")>>,
                 NotProcessed, "Ok")
    ELSE Handled([state EXCEPT !.worker_name = "worker", !.authorized = TRUE,
                               !.difficulty = 1],
                 <<Notification("mining.set_difficulty", 0), Response("true", 0, "")>>,
                 NotProcessed, "Ok")

\* the shares a miner may submit: [job_id, extra_nonce2, time, nonce]
Shares == [job_id : 1..MaxJobs, extra_nonce2 : {7}, time : {0}, nonce : {0, 1}]
\* complete: five string parameters; hex: extra_nonce2, time and nonce parse
SubmitParams ==
    [complete : {TRUE}, hex : {TRUE}, share : Shares]
    \cup [complete : {FALSE}, hex : {TRUE},
          share : {[job_id |-> 0, extra_nonce2 |-> 0, time |-> 0, nonce |-> 0]}]
Unsubmitted == [submitted |-> 0, accepted |-> 0, found |-> 0, coinbase_tx |-> <<>>]

\* the record of a handled request
\* job_id is the job a mining.submit names (0: none); `unknown` says that the
\* job map does not hold it when the request is handled, `cleaned` that
\* create_job once made it
Request(method, s, h, complete, replay, stale, current, job_id) ==
    [method |-> method, session |-> s, before |-> sessions[s], sent |-> h.sent,
     returns |-> h.returns, processed |-> h.p.res # "none", res |-> h.p.res,
     found |-> Len(h.p.found),
     complete |-> complete, replay |-> replay, stale |-> stale, current |-> current,
     unknown |-> job_id # 0 /\ job_id \notin DOMAIN jobs,
     cleaned |-> job_id \in DOMAIN job_tips /\ job_id \notin DOMAIN jobs]

\* mining.subscribe, either definition
HandleSubscribe(s) ==
    /\ requests < MaxRequests
    /\ s \in DOMAIN sessions
    /\ LET h == Handled(sessions[s], <<Response("subscription", 0, "")>>,
                        NotProcessed, "Ok")
       IN last' = Request("mining.subscribe", s, h, TRUE, FALSE, FALSE, 0, 0)
    /\ requests' = requests + 1
    /\ UNCHANGED <<jobs, job_tips, created_jobs, tip, clock, sessions, callbacks, shares>>

\* mining.authorize
HandleAuthorize(s, params) ==
    /\ requests < MaxRequests
    /\ s \in DOMAIN sessions
    /\ \E job \in LatestJobs :
         LET h == IF build.stratum = "first"
                  THEN handle_authorize(sessions[s], params, job)
                  ELSE handle_authorize_second(sessions[s], params)
             current == IF DOMAIN jobs = {} THEN 0 ELSE MaxOf(DOMAIN jobs)
         IN /\ sessions' = [sessions EXCEPT ![s] = h.session]
            /\ last' = Request("mining.authorize", s, h, params.named, FALSE, FALSE,
                               current, 0)
    /\ requests' = requests + 1
    /\ UNCHANGED <<jobs, job_tips, created_jobs, tip, clock, callbacks, shares>>

\* mining.submit
HandleSubmit(s, params) ==
    /\ requests < MaxRequests
    /\ s \in DOMAIN sessions
    /\ LET h == IF build.stratum = "first"
                THEN handle_submit(sessions[s], params)
                ELSE handle_submit_second(sessions[s], params)
           key == <<s, params.share>>
           before == IF key \in DOMAIN shares THEN shares[key] ELSE Unsubmitted
           job_id == params.share.job_id
           stale == /\ job_id \in DOMAIN job_tips
                    /\ job_tips[job_id] # tip
                    /\ \E j \in DOMAIN jobs : jobs[j].prev_hash = tip /\ jobs[j].clean_job
       IN /\ sessions' = [sessions EXCEPT ![s] = h.session]
          /\ callbacks' = callbacks \o h.p.found
          /\ shares' =
               IF ~params.complete THEN shares
               ELSE With(shares, key,
                         [submitted |-> before.submitted + 1,
                          accepted |-> before.accepted + h.session.shares_accepted
                                           - sessions[s].shares_accepted,
                          found |-> before.found + Len(h.p.found),
                          coinbase_tx |-> IF h.p.coinbase_tx # <<>> THEN h.p.coinbase_tx
                                          ELSE before.coinbase_tx])
          /\ last' = Request("mining.submit", s, h, params.complete,
                             params.complete /\ before.submitted > 0, stale, 0,
                             job_id)
    /\ requests' = requests + 1
    /\ UNCHANGED <<jobs, job_tips, created_jobs, tip, clock>>

\* any other method: error 20 in either definition
HandleUnsupported(s) ==
    /\ requests < MaxRequests
    /\ s \in DOMAIN sessions
    /\ LET h == Handled(sessions[s], <<Response("null", 20, "Unsupported method")>>,
                        NotProcessed, "Ok")
       IN last' = Request("unsupported", s, h, TRUE, FALSE, FALSE, 0, 0)
    /\ requests' = requests + 1
    /\ UNCHANGED <<jobs, job_tips, created_jobs, tip, clock, sessions, callbacks, shares>>

InitStratum ==
    /\ NewUtxoSet
    /\ IdleNode
    /\ build \in {b \in Builds : /\ b.overflow_checks /\ b.shift_bits = 32
                                /\ ~b.log_debug /\ b.kawpow = "lib.rs"}
    /\ call = [name |-> "none"]
    /\ ret = Pending

Connects ==
    /\ \E s \in Sessions, extra_nonce1 \in ExtraNonces : Connect(s, extra_nonce1)
    /\ UNCHANGED notStratumVars
TipAdvances ==
    /\ NewTip
    /\ UNCHANGED notStratumVars
TimePasses ==
    /\ Tick
    /\ UNCHANGED notStratumVars
CreatesJob ==
    /\ CreateJob
    /\ UNCHANGED notStratumVars
CleansJobs ==
    /\ \E max_age_secs \in 1..MaxClock : CleanExpiredJobs(max_age_secs)
    /\ UNCHANGED notStratumVars
Subscribes ==
    /\ \E s \in Sessions : HandleSubscribe(s)
    /\ UNCHANGED notStratumVars
Authorizes ==
    /\ \E s \in Sessions, params \in [named : BOOLEAN] : HandleAuthorize(s, params)
    /\ UNCHANGED notStratumVars
Submits ==
    /\ \E s \in Sessions, params \in SubmitParams : HandleSubmit(s, params)
    /\ UNCHANGED notStratumVars
Unsupported ==
    /\ \E s \in Sessions : HandleUnsupported(s)
    /\ UNCHANGED notStratumVars

NextStratum ==
    \/ Connects
    \/ TipAdvances
    \/ TimePasses
    \/ CreatesJob
    \/ CleansJobs
    \/ Subscribes
    \/ Authorizes
    \/ Submits
    \/ Unsupported

SpecStratum == InitStratum /\ [][NextStratum]_vars

-----------------------------------------------------------------------------
(* Claims about the Stratum server *)

Submitted == last.method = "mining.submit"
SentCode(code) == \E i \in 1..Len(last.sent) : last.sent[i].code = code
AcceptedUnchanged ==
    sessions[last.session].shares_accepted = last.before.shares_accepted
RejectedUnchanged ==
    sessions[last.session].shares_rejected = last.before.shares_rejected

\* C16: a submit received before the session has been authorized does not
\* reach process_submission, changes neither share counter and is answered
\* with error code 25; a session has accepted shares only if it is authorized.
C16_SubmitBeforeAuthorize ==
    /\ (Submitted /\ ~last.before.authorized)
          => /\ ~last.processed
             /\ AcceptedUnchanged /\ RejectedUnchanged
             /\ SentCode(25)
    /\ \A s \in DOMAIN sessions :
          sessions[s].shares_accepted > 0 => sessions[s].authorized

\* C17: once the tip has advanced and a clean job exists for the new tip, a
\* submission that references a job created for the previous tip is rejected
\* with error code 21, is not counted as accepted and hands no block to the
\* new-block callback.
C17_StaleShareRejected ==
    (Submitted /\ last.stale /\ last.before.authorized)
        => /\ SentCode(21)
           /\ AcceptedUnchanged
           /\ last.found = 0

\* C18: the second submission of the same (job_id, extranonce2, time, nonce)
\* on a session is rejected with error code 22, and over all submissions of
\* one share the accepted counter rises by at most one and the new-block
\* callback fires at most once.
C18_NoShareReplay ==
    /\ (Submitted /\ last.replay /\ last.before.authorized) => SentCode(22)
    /\ \A key \in DOMAIN shares :
          shares[key].accepted <= 1 /\ shares[key].found <= 1

\* C19: a successful authorize marks the session authorized and puts on its
\* channel the response true, a set_difficulty notification and, when the
\* job map is not empty, a notify for the most recently created job.
C19_AuthorizeSendsWork ==
    (last.method = "mining.authorize" /\ last.complete /\ last.returns = "Ok")
        => /\ sessions[last.session].authorized
           /\ \E i \in 1..Len(last.sent) :
                 last.sent[i].method = "response" /\ last.sent[i].result = "true"
           /\ \E i \in 1..Len(last.sent) : last.sent[i].method = "mining.set_difficulty"
           /\ last.current # 0
                 => \E i \in 1..Len(last.sent) :
                       /\ last.sent[i].method = "mining.notify"
                       /\ last.sent[i].job = last.current

\* C20: two connected sessions have different extranonce1 values, and the
\* coinbase process_submission reconstructs for the same job_id, extranonce2,
\* time and nonce differs between two sessions.
C20_SessionsSearchDisjointSpaces ==
    /\ \A s1, s2 \in DOMAIN sessions :
          s1 # s2 => sessions[s1].extra_nonce1 # sessions[s2].extra_nonce1
    /\ \A k1, k2 \in DOMAIN shares :
          (/\ k1[1] # k2[1] /\ k1[2] = k2[2]
           /\ shares[k1].coinbase_tx # <<>> /\ shares[k2].coinbase_tx # <<>>)
             => shares[k1].coinbase_tx # shares[k2].coinbase_tx

\* a rejection among the messages of the latest request: an error, or the
\* result false
SentRejection ==
    \E i \in 1..Len(last.sent) :
        /\ last.sent[i].method = "response"
        /\ last.sent[i].code # 0 \/ last.sent[i].result = "false"

\* C29: a submission handed to process_submission whose job id is not in the
\* job map (never created, or removed by clean_expired_jobs) is rejected:
\* process_submission returns an error, the new-block callback is not
\* invoked, the session's accepted counter is unchanged and the session is
\* sent a rejection, and no acceptance, for the request
C29_UnknownJobRejected ==
    (Submitted /\ last.processed /\ last.unknown)
        => /\ last.res = "Err"
           /\ last.found = 0
           /\ AcceptedUnchanged
           /\ SentRejection
           /\ \A i \in 1..Len(last.sent) : last.sent[i].result # "true"

\* a share for a job that clean_expired_jobs removed has been processed
C29_Witness ==
    Submitted /\ last.processed /\ last.cleaned /\ SentRejection

-----------------------------------------------------------------------------
(* The job map under any readings of the clock.  Utc::now() is the wall       *)
(* clock: two calls can read the same nanosecond, and the clock can be set    *)
(* back between two calls.                                                    *)

MaxNanos == 3
Nanos == 1..MaxNanos

InitJobs ==
    /\ NewUtxoSet
    /\ IdleNode
    /\ build \in {b \in Builds : /\ b.overflow_checks /\ b.shift_bits = 32
                                /\ ~b.log_debug /\ b.kawpow = "lib.rs"
                                /\ b.stratum = "first"}
    /\ call = [name |-> "none"]
    /\ ret = Pending

CreatesJobAt ==
    /\ \E job_id \in Nanos : CreateJobAt(job_id)
    /\ UNCHANGED notStratumVars

NextJobs ==
    \/ CreatesJobAt
    \/ CleansJobs
    \/ TipAdvances
    \/ TimePasses

SpecJobs == InitJobs /\ [][NextJobs]_vars

\* C32: after any sequence of create_job and clean_expired_jobs calls the job
\* map holds at most max_jobs jobs
C32_JobMapBounded == Cardinality(DOMAIN jobs) <= pool_config.max_jobs

\* C33: every create_job returns an id greater than the ids of all jobs
\* created before it, so that no insert replaces a job: as many ids have
\* been handed out as there were calls
C33_JobIdsIncrease ==
    /\ \A i, j \in DOMAIN created_jobs : i < j => created_jobs[i] < created_jobs[j]
    /\ Cardinality(DOMAIN job_tips) = Len(created_jobs)

-----------------------------------------------------------------------------
(* Session cleanup.  The server's cleanup task runs cleanup_sessions every    *)
(* 60 s on the multi-threaded runtime, beside the sessions' reader tasks: it   *)
(* reads the time, collects the idle sessions under the read lock of the      *)
(* session map, and removes them under the write lock.  A reader task needs   *)
(* neither lock to handle a request: it holds its session's Arc.              *)

IdleTimeout == 600
Instants == {0, 300, 600, 700, 1400}

\* now.duration_since(last_activity): zero when last_activity is the later
IdleTime(now, s) == IF now >= last_activity[s] THEN now - last_activity[s] ELSE 0

\* handle_connection: StratumSession::new sets last_activity, and the session
\* enters the map
AcceptSession(s, extra_nonce1) ==
    /\ s \notin DOMAIN sessions
    /\ Connect(s, extra_nonce1)
    /\ last_activity' = With(last_activity, s, instant)
    /\ UNCHANGED <<instant, cleanup>>

\* handle_request, its first statement
TouchSession(s) ==
    /\ s \in DOMAIN last_activity
    /\ last_activity' = [last_activity EXCEPT ![s] = instant]
    /\ UNCHANGED <<stratumVars, instant, cleanup>>

\* cleanup_sessions: `let now = Instant::now()`
CleanupReadsTime ==
    /\ cleanup.pc = "idle"
    /\ cleanup' = [pc |-> "started", now |-> instant, to_remove |-> {}]
    /\ UNCHANGED <<stratumVars, instant, last_activity>>

\* cleanup_sessions: the scan under sessions.read()
CleanupScan ==
    /\ cleanup.pc = "started"
    /\ cleanup' = [cleanup EXCEPT
                      !.pc = "scanned",
                      !.to_remove = {s \in DOMAIN sessions :
                                        IdleTime(cleanup.now, s) > IdleTimeout}]
    /\ UNCHANGED <<stratumVars, instant, last_activity>>

\* cleanup_sessions: the removal under sessions.write(), when to_remove is
\* not empty
CleanupRemove ==
    /\ cleanup.pc = "scanned"
    /\ sessions' = [s \in DOMAIN sessions \ cleanup.to_remove |-> sessions[s]]
    /\ cleanup' = IdlePass
    /\ UNCHANGED <<jobs, job_tips, created_jobs, tip, clock, callbacks, shares,
                   requests, last, instant, last_activity>>

InstantPasses ==
    /\ \E t \in Instants : t > instant /\ instant' = t
    /\ UNCHANGED <<stratumVars, last_activity, cleanup>>

InitCleanup ==
    /\ NewUtxoSet
    /\ IdleNode
    /\ build \in {b \in Builds : /\ b.overflow_checks /\ b.shift_bits = 32
                                /\ ~b.log_debug /\ b.kawpow = "lib.rs"
                                /\ b.stratum = "first"}
    /\ call = [name |-> "none"]
    /\ ret = Pending

AcceptsSession ==
    /\ \E s \in Sessions, extra_nonce1 \in ExtraNonces : AcceptSession(s, extra_nonce1)
    /\ UNCHANGED notCleanupVars
TouchesSession ==
    /\ \E s \in Sessions : TouchSession(s)
    /\ UNCHANGED notCleanupVars
ReadsTime ==
    /\ CleanupReadsTime
    /\ UNCHANGED notCleanupVars
Scans ==
    /\ CleanupScan
    /\ UNCHANGED notCleanupVars
Removes ==
    /\ CleanupRemove
    /\ UNCHANGED notCleanupVars
Waits ==
    /\ InstantPasses
    /\ UNCHANGED notCleanupVars

NextCleanup ==
    \/ AcceptsSession
    \/ TouchesSession
    \/ ReadsTime
    \/ Scans
    \/ Removes
    \/ Waits

SpecCleanup == InitCleanup /\ [][NextCleanup]_vars

\* C34: a pass removes a session only if its last activity is more than 600 s
\* old at the moment of removal, so not one that handled a request after the
\* scan; and it removes every session of the map whose last activity was
\* more than 600 s old when the pass read the time
C34_CleanupRemovesIdleOnly ==
    [][(cleanup.pc = "scanned" /\ cleanup'.pc = "idle")
          => \A s \in DOMAIN sessions :
                /\ s \notin DOMAIN sessions'
                      => instant - last_activity[s] > IdleTimeout
                /\ cleanup.now - last_activity[s] > IdleTimeout
                      => s \notin DOMAIN sessions']_vars

-----------------------------------------------------------------------------
(* The KAWPOW context's light caches.  kawpow.rs keeps a map from epoch to    *)
(* cache behind a RwLock: get_light_cache looks the epoch up under the read   *)
(* lock and, when it is absent, generates the cache and inserts it under the  *)
(* write lock; the two critical sections are two steps of a verifier.  The    *)
(* inline module of lib.rs keeps one LightCache behind a Mutex that           *)
(* verify_kawpow holds from update to return: one step.                       *)

SetVerifier(t, pc, height, further) ==
    [verifiers EXCEPT ![t] = [pc |-> pc, height |-> height, further |-> further]]

\* the heights on the two sides of the first epoch boundary
BoundaryHeights == {kawpow_params.epoch_length - 1, kawpow_params.epoch_length}

\* a `further` verification starts when no other is in progress and both
\* sides of the boundary have been verified
CallVerify(t, height) ==
    /\ verifications < MaxVerifications
    /\ verifiers[t].pc = "idle"
    /\ verifiers' = SetVerifier(t, "called", height,
                                /\ \A u \in Verifiers : verifiers[u].pc = "idle"
                                /\ BoundaryHeights \subseteq verified_heights)
    /\ verifications' = verifications + 1
    /\ UNCHANGED <<kawpow_params, light_caches, single_light_cache, verified_heights,
                   last_verify, arcs, obtained>>

\* what a verification leaves behind when it returns
Finish(t, used, generated) ==
    /\ verified_heights' = verified_heights \cup {verifiers[t].height}
    /\ last_verify' = [height |-> verifiers[t].height, used |-> used,
                       generated |-> generated, further |-> verifiers[t].further]

\* kawpow.rs get_light_cache, the read of light_caches: a hit returns the
\* cache and the verification goes on to its end
LookupLightCache(t) ==
    /\ build.kawpow = "kawpow.rs"
    /\ verifiers[t].pc = "called"
    /\ LET epoch == get_epoch(kawpow_params, verifiers[t].height) IN
       IF epoch \in DOMAIN light_caches
       THEN /\ verifiers' = SetVerifier(t, "idle", verifiers[t].height, FALSE)
            /\ obtained' = [obtained EXCEPT
                               ![t] = [epoch |-> epoch, arc |-> light_caches[epoch]]]
            /\ Finish(t, arcs[light_caches[epoch]].light_cache, FALSE)
       ELSE /\ verifiers' = SetVerifier(t, "missed", verifiers[t].height,
                                        verifiers[t].further)
            /\ UNCHANGED <<verified_heights, last_verify, obtained>>
    /\ UNCHANGED <<kawpow_params, light_caches, single_light_cache, verifications,
                   arcs>>

\* a generation whose result depends on the caller
generate_per_caller(t, epoch) == [light_cache |-> epoch + t * 1000]

\* generate_seed and generate_light_cache: the buffer is a function of the
\* epoch alone
generate(t, epoch) == get_light_cache(epoch)

\* kawpow.rs get_light_cache after a miss: generate_light_cache into a new
\* Arc, which the insert puts into light_caches in place of the epoch's
\* entry, if any, and which the caller receives
InsertLightCache(t) ==
    /\ build.kawpow = "kawpow.rs"
    /\ verifiers[t].pc = "missed"
    /\ LET epoch == get_epoch(kawpow_params, verifiers[t].height)
           cache_arc == Len(arcs) + 1
       IN /\ arcs' = Append(arcs, generate(t, epoch))
          /\ light_caches' = With(light_caches, epoch, cache_arc)
          /\ obtained' = [obtained EXCEPT ![t] = [epoch |-> epoch, arc |-> cache_arc]]
          /\ Finish(t, epoch, TRUE)
    /\ verifiers' = SetVerifier(t, "idle", verifiers[t].height, FALSE)
    /\ UNCHANGED <<kawpow_params, single_light_cache, verifications>>

\* lib.rs LightCache::update: the one cache is regenerated, as zeros, whenever
\* the epoch differs from the cache's
update(cache, epoch) ==
    IF cache.current_epoch = epoch THEN cache
    ELSE [current_epoch |-> epoch, cache |-> <<0>>]

\* lib.rs kawpow::verify_kawpow, under the context's mutex
LockedVerify(t) ==
    /\ build.kawpow = "lib.rs"
    /\ verifiers[t].pc = "called"
    /\ LET epoch == get_epoch(kawpow_params, verifiers[t].height) IN
       /\ single_light_cache' = update(single_light_cache, epoch)
       /\ Finish(t, single_light_cache'.current_epoch,
                 single_light_cache.current_epoch # epoch)
    /\ verifiers' = SetVerifier(t, "idle", verifiers[t].height, FALSE)
    /\ UNCHANGED <<kawpow_params, light_caches, verifications, arcs, obtained>>

InitKawpow ==
    /\ NewUtxoSet
    /\ NewMemoryBlockStore
    /\ NewStratumServer
    /\ NewMiningPool([fee_percent |-> 1, min_payment_threshold |-> 1, max_jobs |-> 1])
    /\ \E params \in KawpowParams : NewKawpowContext(params)
    /\ build \in {b \in Builds : /\ b.overflow_checks /\ b.shift_bits = 32
                                /\ ~b.log_debug /\ b.stratum = "first"}
    /\ call = [name |-> "none"]
    /\ ret = Pending

CallsVerify ==
    /\ \E t \in Verifiers, height \in BoundaryHeights : CallVerify(t, height)
    /\ UNCHANGED notKawpowVars
Looksup ==
    /\ \E t \in Verifiers : LookupLightCache(t)
    /\ UNCHANGED notKawpowVars
Inserts ==
    /\ \E t \in Verifiers : InsertLightCache(t)
    /\ UNCHANGED notKawpowVars
Updates ==
    /\ \E t \in Verifiers : LockedVerify(t)
    /\ UNCHANGED notKawpowVars

NextKawpow ==
    \/ CallsVerify
    \/ Looksup
    \/ Inserts
    \/ Updates

SpecKawpow == InitKawpow /\ [][NextKawpow]_vars

\* the epochs whose cache the context holds
Resident ==
    IF build.kawpow = "kawpow.rs" THEN DOMAIN light_caches
    ELSE {single_light_cache.current_epoch} \ {NoEpoch}

\* C21: every verification uses the cache of its height's epoch; once
\* heights E-1 and E have both been verified, the caches of epochs 0 and 1
\* are both resident; and a further verification at height E-1 does not
\* generate the epoch-0 cache again.
C21_BothEpochCachesStay ==
    /\ last_verify # NoVerification
          => last_verify.used = get_epoch(kawpow_params, last_verify.height)
    /\ BoundaryHeights \subseteq verified_heights => {0, 1} \subseteq Resident
    /\ (last_verify.further /\ last_verify.height = kawpow_params.epoch_length - 1)
          => ~last_verify.generated

\* every caller's buffer has the contents of the map's entry for its epoch
SameAsEntry ==
    \A t \in Verifiers :
        obtained[t] # NoArc
            => /\ obtained[t].epoch \in DOMAIN light_caches
               /\ arcs[obtained[t].arc] = arcs[light_caches[obtained[t].epoch]]

\* C31: under any interleaving of get_light_cache calls the map holds one
\* entry for an epoch that was asked for, every caller's buffer has the
\* contents of that entry, and no step changes a buffer that exists: an
\* insertion stores a new buffer and leaves the ones handed out as they were
C31_OneCachePerEpoch ==
    [][/\ SameAsEntry'
       /\ \A a \in DOMAIN arcs : a \in DOMAIN arcs' /\ arcs'[a] = arcs[a]
       /\ DOMAIN light_caches \subseteq DOMAIN light_caches']_vars

\* two calls for one epoch both missed and both generated: each holds its own
\* buffer, and the map holds the one inserted last
C31_Witness ==
    \E t, u \in Verifiers :
        /\ obtained[t] # NoArc /\ obtained[u] # NoArc
        /\ obtained[t].epoch = obtained[u].epoch
        /\ obtained[t].arc # obtained[u].arc
        /\ light_caches[obtained[t].epoch] = obtained[u].arc

-----------------------------------------------------------------------------
(* The mining pool's accounting (mining/src/pool.rs).  Every operation takes  *)
(* the lock of `miners`, acts and returns: one step.  A thread that asks for  *)
(* the write lock of a std::sync::RwLock while it holds the read lock itself  *)
(* either panics or waits for ever, holding the read lock.                    *)

Workers == {"A", "B"}
PoolConfigs == [fee_percent : {0, 25, 50}, min_payment_threshold : {0, 1}, max_jobs : {1}]

NewMinerInfo ==
    [shares_accepted |-> 0, shares_rejected |-> 0, blocks_found |-> 0,
     pending_balance |-> 0]

\* MiningPool::process_share, with what process_submission returned for it
ProcessShare(worker_name, submission) ==
    /\ pool_ops < MaxPoolOps
    /\ miners_lock = "free"
    /\ IF submission = "Err"
       THEN /\ pool_last' = [op |-> "process_share", returned |-> "Err", paid |-> {},
                             before |-> miners]
            /\ UNCHANGED <<miners, pool_stats>>
       ELSE LET miner == IF worker_name \in DOMAIN miners THEN miners[worker_name]
                         ELSE NewMinerInfo
            IN IF submission = "Ok(true)"
               THEN /\ miners' = With(miners, worker_name,
                                      [miner EXCEPT !.shares_accepted = @ + 1])
                    /\ pool_stats' = [pool_stats EXCEPT !.shares_accepted = @ + 1]
                    /\ pool_last' = [op |-> "process_share", returned |-> "Ok(true)",
                                     paid |-> {}, before |-> miners]
               ELSE /\ miners' = With(miners, worker_name,
                                      [miner EXCEPT !.shares_rejected = @ + 1])
                    /\ pool_stats' = [pool_stats EXCEPT !.shares_rejected = @ + 1]
                    /\ pool_last' = [op |-> "process_share", returned |-> "Ok(false)",
                                     paid |-> {}, before |-> miners]
    /\ pool_ops' = pool_ops + 1
    /\ UNCHANGED <<pool_config, miners_lock, lockVars>>

\* MiningPool::process_payments: the miners at or above the threshold are
\* paid, one write lock each
ProcessPayments ==
    /\ pool_ops < MaxPoolOps
    /\ miners_lock = "free"
    /\ LET miners_to_pay ==
               {w \in DOMAIN miners :
                    miners[w].pending_balance >= pool_config.min_payment_threshold}
       IN /\ miners' = [w \in DOMAIN miners |->
                           IF w \in miners_to_pay
                           THEN [miners[w] EXCEPT !.pending_balance = 0]
                           ELSE miners[w]]
          /\ pool_last' = [op |-> "process_payments", returned |-> "Ok",
                           paid |-> miners_to_pay, before |-> miners]
    /\ pool_ops' = pool_ops + 1
    /\ UNCHANGED <<pool_config, pool_stats, miners_lock, lockVars>>

RECURSIVE SumOver(_, _)
SumOver(f, S) ==
    IF S = {} THEN 0
    ELSE LET x == CHOOSE y \in S : TRUE IN f[x] + SumOver(f, S \ {x})

\* MiningPool::calculate_block_rewards.  The read guard taken for total_shares
\* is still alive when `self.miners.write()` is reached: the distribution
\* loop behind it is never entered.
CalculateBlockRewards(block_reward, outcome) ==
    /\ pool_ops < MaxPoolOps
    /\ miners_lock = "free"
    /\ LET total_shares ==
               SumOver([w \in DOMAIN miners |-> miners[w].shares_accepted], DOMAIN miners)
       IN IF total_shares = 0
          THEN /\ pool_last' = [op |-> "calculate_block_rewards", returned |-> "Ok",
                                paid |-> {}, before |-> miners,
                                block_reward |-> block_reward]
               /\ UNCHANGED miners_lock
          ELSE /\ pool_last' = [op |-> "calculate_block_rewards", returned |-> outcome,
                                paid |-> {}, before |-> miners,
                                block_reward |-> block_reward]
               /\ miners_lock' = IF outcome = "deadlocked" THEN "read" ELSE "free"
    /\ pool_ops' = pool_ops + 1
    /\ UNCHANGED <<pool_config, miners, pool_stats, lockVars>>

InitPool ==
    /\ NewUtxoSet
    /\ IdleConsensus
    /\ NewMemoryBlockStore
    /\ NewStratumServer
    /\ NewKawpowContext([epoch_length |-> 100])
    /\ \E config \in PoolConfigs : NewMiningPool(config)

ProcessesShare ==
    /\ \E worker_name \in Workers, submission \in {"Ok(true)", "Ok(false)", "Err"} :
          ProcessShare(worker_name, submission)
    /\ UNCHANGED notPoolVars
Pays ==
    /\ ProcessPayments
    /\ UNCHANGED notPoolVars
Rewards ==
    /\ \E block_reward \in 1..MaxBlockReward, outcome \in {"panicked", "deadlocked"} :
          CalculateBlockRewards(block_reward, outcome)
    /\ UNCHANGED notPoolVars

NextPool ==
    \/ ProcessesShare
    \/ Pays
    \/ Rewards

SpecPool == InitPool /\ [][NextPool]_vars

-----------------------------------------------------------------------------
(* Claims about the mining pool *)

Rewarded == pool_last.op = "calculate_block_rewards"
TotalShares(ms) == SumOver([w \in DOMAIN ms |-> ms[w].shares_accepted], DOMAIN ms)
FeeAmount(block_reward) == (block_reward * pool_config.fee_percent) \div 100
\* what the pro-rata rule credits a miner with
ProRata(block_reward, ms, w) ==
    IF TotalShares(ms) = 0 THEN 0
    ELSE ((block_reward - FeeAmount(block_reward)) * ms[w].shares_accepted)
             \div TotalShares(ms)
Credit(w) == miners[w].pending_balance - pool_last.before[w].pending_balance

\* C24: calculate_block_rewards returns, having credited every miner with
\* floor((block_reward - fee) * shares_i / total_shares); the credits sum to at
\* most block_reward - fee and a miner without accepted shares gets nothing.
C24_RewardsProRata ==
    Rewarded
        => /\ pool_last.returned = "Ok"
           /\ \A w \in DOMAIN miners :
                 Credit(w) = ProRata(pool_last.block_reward, pool_last.before, w)
           /\ SumOver([w \in DOMAIN miners |-> Credit(w)], DOMAIN miners)
                 <= pool_last.block_reward - FeeAmount(pool_last.block_reward)
           /\ \A w \in DOMAIN miners :
                 pool_last.before[w].shares_accepted = 0 => Credit(w) = 0

\* C25: a payout closes the window: after process_payments has paid miners,
\* the accepted-share counts that reward attribution reads are zero again,
\* so that a miner who submits nothing afterwards gets no credit from the
\* next block.
C25_SharesResetAtPayout ==
    (pool_last.op = "process_payments" /\ pool_last.paid # {})
        => \A w \in DOMAIN miners : miners[w].shares_accepted = 0

-----------------------------------------------------------------------------
(* A Stratum connection (StratumServer::handle_connection) and the pool's     *)
(* job refresh task.  The reader task of a session takes the next line off    *)
(* the socket, parses it and awaits the handler; the handler's sends go to    *)
(* the session's channel.  Taking a line and handling it are two steps, so    *)
(* that the tasks of different sessions, and the refresh task, interleave.    *)
(* channel[s] is everything sent on the channel so far, each message with     *)
(* the number of the line that caused it.                                     *)

NoSubmit ==
    [complete |-> FALSE, hex |-> TRUE,
     share |-> [job_id |-> 0, extra_nonce2 |-> 0, time |-> 0, nonce |-> 0]]
\* a line serde_json cannot parse as a StratumRequest
GarbageLine == [method |-> "unparseable", named |-> FALSE, params |-> NoSubmit]
AuthorizeLine == [method |-> "mining.authorize", named |-> TRUE, params |-> NoSubmit]
SubmitLine(params) == [method |-> "mining.submit", named |-> FALSE, params |-> params]
SolvingShare == [job_id |-> 1, extra_nonce2 |-> 7, time |-> 0, nonce |-> 1]
ConnectionLines ==
    {GarbageLine, AuthorizeLine,
     SubmitLine([complete |-> TRUE, hex |-> TRUE, share |-> SolvingShare]),
     SubmitLine([complete |-> TRUE, hex |-> FALSE, share |-> SolvingShare])}

\* a malformed line: not a request, or a submit whose hex fields do not parse
Malformed(line) ==
    \/ line.method = "unparseable"
    \/ line.method = "mining.submit" /\ ~line.params.hex

\* a line arrives on the socket of a connected session
LineArrives(s, line) ==
    /\ s \in DOMAIN sessions
    /\ Len(lines[s]) < MaxLines
    /\ lines' = [lines EXCEPT ![s] = Append(@, line)]
    /\ UNCHANGED <<taken, handling, channel, stratumVars>>

\* a reader that spawned each handler would be free at once
ReaderSpawns(s) == TRUE
\* the reader loop awaits handle_request before it asks for the next line
ReaderFree(s) == handling[s] = {}

\* the reader task takes the next line; one that does not parse is logged
ReadLine(s) ==
    /\ s \in DOMAIN sessions
    /\ ReaderFree(s)
    /\ taken[s] < Len(lines[s])
    /\ taken' = [taken EXCEPT ![s] = @ + 1]
    /\ handling' = IF lines[s][taken[s] + 1].method = "unparseable" THEN handling
                   ELSE [handling EXCEPT ![s] = @ \cup {taken[s] + 1}]
    /\ UNCHANGED <<lines, channel, stratumVars>>

\* handle_request for a line, by the definition the build keeps
HandlerOf(s, line, job) ==
    IF line.method = "mining.authorize"
    THEN IF build.stratum = "first" THEN handle_authorize(sessions[s], line, job)
         ELSE handle_authorize_second(sessions[s], line)
    ELSE IF build.stratum = "first" THEN handle_submit(sessions[s], line.params)
         ELSE handle_submit_second(sessions[s], line.params)

\* the handler of line k runs to its end
HandleLine(s, k) ==
    /\ k \in handling[s]
    /\ \E job \in LatestJobs :
          LET h == HandlerOf(s, lines[s][k], job) IN
          /\ sessions' = [sessions EXCEPT ![s] = h.session]
          /\ channel' = [channel EXCEPT ![s] =
                            @ \o [i \in 1..Len(h.sent) |-> [k |-> k, message |-> h.sent[i]]]]
          /\ callbacks' = callbacks \o h.p.found
    /\ handling' = [handling EXCEPT ![s] = @ \ {k}]
    /\ UNCHANGED <<lines, taken, jobs, job_tips, created_jobs, tip, clock, shares, requests, last>>

InitConnection ==
    /\ NewUtxoSet
    /\ IdleNode
    /\ build \in {b \in Builds : /\ b.overflow_checks /\ b.shift_bits = 32
                                /\ ~b.log_debug /\ b.kawpow = "lib.rs"}
    /\ call = [name |-> "none"]
    /\ ret = Pending

Arrives ==
    /\ \E s \in Sessions, line \in ConnectionLines : LineArrives(s, line)
    /\ UNCHANGED notMiningVars
Reads ==
    /\ \E s \in Sessions : ReadLine(s)
    /\ UNCHANGED notMiningVars
Handles ==
    /\ \E s \in Sessions, k \in 1..MaxLines : HandleLine(s, k)
    /\ UNCHANGED notMiningVars
\* MiningPool::start_job_refresh_task: every tick creates a job, and that is
\* all it does
RefreshesJob ==
    /\ CreateJob
    /\ UNCHANGED <<notMiningVars, connVars>>
Accepts ==
    /\ \E s \in Sessions, extra_nonce1 \in ExtraNonces : Connect(s, extra_nonce1)
    /\ UNCHANGED <<notMiningVars, connVars>>

NextConnection ==
    \/ Accepts
    \/ Arrives
    \/ Reads
    \/ Handles
    \/ RefreshesJob

SpecConnection == InitConnection /\ [][NextConnection]_vars

\* the tasks are tokio tasks: one that can run does run, and the refresh
\* task's timer keeps ticking
SpecConnectionFair ==
    InitConnection /\ [][NextConnection]_vars
        /\ WF_vars(Reads) /\ WF_vars(Handles) /\ WF_vars(RefreshesJob)

-----------------------------------------------------------------------------
(* Claims about connections *)

Notified(s, j) ==
    \E i \in 1..Len(channel[s]) :
        /\ channel[s][i].message.method = "mining.notify"
        /\ channel[s][i].message.job = j
NotifiesInOrder(s) ==
    \A i, j \in 1..Len(channel[s]) :
        (/\ i < j
         /\ channel[s][i].message.method = "mining.notify"
         /\ channel[s][j].message.method = "mining.notify")
            => channel[s][i].message.job <= channel[s][j].message.job

C27_RequestsInArrivalOrder ==
    \A s \in Sessions :
        /\ Cardinality(handling[s]) <= 1
        /\ \A k \in handling[s] : k = taken[s]
        /\ \A i, j \in 1..Len(channel[s]) : i < j => channel[s][i].k <= channel[s][j].k

\* two requests of one session answered while a request of the other session
\* is in progress
C27_Witness ==
    \E s, t \in Sessions :
        /\ s # t
        /\ \E i, j \in 1..Len(channel[s]) : channel[s][i].k = 1 /\ channel[s][j].k = 2
        /\ handling[t] # {}

\* C28: every malformed line that the reader has dealt with (one that is no
\* request object, or a submit with a non-hex extranonce2, time or nonce) has
\* had an error response sent to its session.
C28_MalformedLineAnswered ==
    \A s \in Sessions : \A k \in 1..taken[s] :
        (k \notin handling[s] /\ Malformed(lines[s][k]))
            => \E i \in 1..Len(channel[s]) :
                  channel[s][i].k = k /\ channel[s][i].message.code # 0

-----------------------------------------------------------------------------
(* Shares and blocks.  The network target is the one job.bits encodes; the   *)
(* share target of the session is looser.                                     *)

AtNetworkTarget == ArrayLeq(call.hash, bits_to_target(call.job.bits).value)
AtShareTarget == ArrayLeq(call.hash, call.share_target)

\* C30: the new-block callback is invoked only for a submission whose hash is
\* at most the network target decoded from job.bits; a submission that
\* meets the share target and not the network target is counted as an
\* accepted share and produces no block
C30_BlockOnlyAtNetworkTarget ==
    Done("process_submission")
        => /\ Returned(ret)
           /\ ret.value.callbacks > 0 => AtNetworkTarget
           /\ (AtShareTarget /\ ~AtNetworkTarget)
                 => ret.value.shares_accepted = 1 /\ ret.value.callbacks = 0

\* the bytes of the coinbase's extranonce placeholder, counted from 0: those
\* of the script after the height
Placeholder(height) ==
    {i \in 0..(Len(create_job_coinbase(height, Zeros(8), Zeros(20))) - 1) :
        /\ i >= script_pos + Len(serialize_script_int(height))
        /\ i < script_pos + 32}

\* C35: splicing extra_nonce2 into the job's coinbase changes only bytes of
\* the extranonce placeholder, whatever the height and the length of
\* extra_nonce2: everything else, the height bytes included, is as create_job
\* wrote it, the length is the same, and the job's own coinbase is not
\* modified
C35_SpliceTouchesPlaceholderOnly ==
    Done("splice")
        => /\ Returned(ret)
           /\ Len(ret.value.spliced) = Len(ret.value.created)
           /\ \A i \in 1..Len(ret.value.created) :
                  (i - 1) \notin Placeholder(call.height)
                      => ret.value.spliced[i] = ret.value.created[i]
           /\ ret.value.job = ret.value.created

\* C36: on every network and at every height the value create_job writes
\* into the coinbase of a job without fee-paying transactions is at most
\* get_block_subsidy of that height, and validate_block accepts the block
\* assembled from the job
C36_JobRewardWithinSubsidy ==
    Done("create_job")
        => /\ Returned(ret)
           /\ Leq(ret.value.written, get_block_subsidy(call.params, call.height))
           /\ ret.value.validated = Returns(Ok)

-----------------------------------------------------------------------------
(* The pool's threads, lock by lock (mining/src/pool.rs).  Four threads use   *)
(* the RwLocks of `miners` and `stats`: the caller of                         *)
(* calculate_block_rewards, a caller of process_share, the payment task and   *)
(* the statistics task.  A step is what a thread does between two lock        *)
(* acquisitions.  A reader is admitted when no writer holds the lock (a lock  *)
(* that prefers waiting writers admits fewer), a writer when nobody holds it. *)

CanRead(l) == rw[l].writer = "none"
CanWrite(l) == rw[l].writer = "none" /\ rw[l].readers = {}
ReadLocked(l, t) == [rw EXCEPT ![l].readers = @ \cup {t}]
ReadDropped(l, t) == [rw EXCEPT ![l].readers = @ \ {t}]
Amount(f, w) == IF w \in DOMAIN f THEN f[w] ELSE 0

\* calculate_block_rewards up to `self.miners.write()`: the read guard is
\* taken, total_shares summed; with no shares the call returns.  `outcome` is
\* what this build's RwLock does to a thread that asks for the write lock
\* while it holds the read lock.
RewardsReadsMiners(block_reward, outcome) ==
    /\ pool_tasks["rewards"].pc = "idle"
    /\ pool_ops < MaxPoolOps
    /\ CanRead("miners")
    /\ LET total_shares ==
               SumOver([w \in DOMAIN miners |-> miners[w].shares_accepted], DOMAIN miners)
       IN IF total_shares = 0
          THEN /\ pool_tasks' = [pool_tasks EXCEPT !["rewards"] =
                                    [pc |-> "idle", returned |-> "Ok"]]
               /\ UNCHANGED rw
          ELSE /\ pool_tasks' = [pool_tasks EXCEPT !["rewards"] =
                                    [pc |-> "write_miners", returned |-> "none",
                                     block_reward |-> block_reward,
                                     total_shares |-> total_shares,
                                     outcome |-> outcome]]
               /\ rw' = ReadLocked("miners", "rewards")
    /\ pool_ops' = pool_ops + 1
    /\ UNCHANGED <<pool_config, miners, pool_stats, miners_lock, pool_last, ledger>>

\* calculate_block_rewards from `self.miners.write()` on.  The thread holds
\* the read guard: a lock that detects it panics and the guard is dropped
\* in unwinding; a lock that does not never admits the writer.  The
\* distribution behind it needs the write lock.
RewardsWritesMiners ==
    LET task == pool_tasks["rewards"] IN
    /\ task.pc = "write_miners"
    /\ IF "rewards" \in rw.miners.readers
       THEN /\ task.outcome = "panicked"
            /\ rw' = ReadDropped("miners", "rewards")
            /\ pool_tasks' = [pool_tasks EXCEPT !["rewards"] =
                                 [pc |-> "idle", returned |-> "panicked"]]
            /\ UNCHANGED <<miners, pool_stats, ledger>>
       ELSE /\ CanWrite("miners") /\ CanWrite("stats")
            /\ LET reward(w) ==
                       IF miners[w].shares_accepted > 0
                       THEN ((task.block_reward
                                - (task.block_reward * pool_config.fee_percent) \div 100)
                               * miners[w].shares_accepted) \div task.total_shares
                       ELSE 0
               IN /\ miners' = [w \in DOMAIN miners |->
                                   [miners[w] EXCEPT !.pending_balance = @ + reward(w)]]
                  /\ ledger' = [ledger EXCEPT !.credited =
                                   [w \in DOMAIN miners |->
                                       Amount(ledger.credited, w) + reward(w)]]
            /\ pool_stats' = [pool_stats EXCEPT !.blocks_found = @ + 1]
            /\ pool_tasks' = [pool_tasks EXCEPT !["rewards"] =
                                 [pc |-> "idle", returned |-> "Ok"]]
            /\ UNCHANGED rw
    /\ UNCHANGED <<pool_config, miners_lock, pool_ops, pool_last>>

\* process_share up to `self.miners.write()`: an error of process_submission
\* is returned by `?`
ShareSubmitted(worker_name, submission) ==
    /\ pool_tasks["share"].pc = "idle"
    /\ pool_ops < MaxPoolOps
    /\ pool_tasks' = [pool_tasks EXCEPT !["share"] =
                         IF submission = "Err"
                         THEN [pc |-> "idle", returned |-> "Err"]
                         ELSE [pc |-> "write_miners", returned |-> "none",
                               worker_name |-> worker_name,
                               result |-> (submission = "Ok(true)")]]
    /\ pool_ops' = pool_ops + 1
    /\ UNCHANGED <<pool_config, miners, pool_stats, miners_lock, pool_last, rw, ledger>>

\* process_share: `self.miners.write()`
ShareWritesMiners ==
    /\ pool_tasks["share"].pc = "write_miners"
    /\ CanWrite("miners")
    /\ rw' = [rw EXCEPT !.miners.writer = "share"]
    /\ pool_tasks' = [pool_tasks EXCEPT !["share"].pc = "write_stats"]
    /\ UNCHANGED <<pool_config, miners, pool_stats, miners_lock, pool_ops, pool_last,
                   ledger>>

\* process_share from `self.stats.write()` to the return, where both guards
\* are dropped
ShareWritesStats ==
    LET task == pool_tasks["share"]
        miner == IF task.worker_name \in DOMAIN miners THEN miners[task.worker_name]
                 ELSE NewMinerInfo
    IN /\ task.pc = "write_stats"
       /\ CanWrite("stats")
       /\ IF task.result
          THEN /\ miners' = With(miners, task.worker_name,
                                 [miner EXCEPT !.shares_accepted = @ + 1])
               /\ pool_stats' = [pool_stats EXCEPT !.shares_accepted = @ + 1]
          ELSE /\ miners' = With(miners, task.worker_name,
                                 [miner EXCEPT !.shares_rejected = @ + 1])
               /\ pool_stats' = [pool_stats EXCEPT !.shares_rejected = @ + 1]
       /\ rw' = [rw EXCEPT !.miners.writer = "none"]
       /\ pool_tasks' = [pool_tasks EXCEPT !["share"] =
                            [pc |-> "idle",
                             returned |-> IF task.result THEN "Ok(true)" ELSE "Ok(false)"]]
       /\ UNCHANGED <<pool_config, miners_lock, pool_ops, pool_last, ledger>>

\* the statistics task: `miners.read()`
StatsReadsMiners ==
    /\ pool_tasks["stats"].pc = "idle"
    /\ pool_ops < MaxPoolOps
    /\ CanRead("miners")
    /\ rw' = ReadLocked("miners", "stats")
    /\ pool_tasks' = [pool_tasks EXCEPT !["stats"] =
                         [pc |-> "write_stats", returned |-> "none"]]
    /\ pool_ops' = pool_ops + 1
    /\ UNCHANGED <<pool_config, miners, pool_stats, miners_lock, pool_last, ledger>>

\* the statistics task from `stats.write()` to the two drops: hashrate,
\* miners_connected and uptime are written, none of them a field kept here
StatsWritesStats ==
    /\ pool_tasks["stats"].pc = "write_stats"
    /\ CanWrite("stats")
    /\ rw' = ReadDropped("miners", "stats")
    /\ pool_tasks' = [pool_tasks EXCEPT !["stats"] = [pc |-> "idle", returned |-> "Ok"]]
    /\ UNCHANGED <<pool_config, miners, pool_stats, miners_lock, pool_ops, pool_last,
                   ledger>>

\* process_payments: the miners at or above the threshold are cloned under
\* the read lock, which is dropped at the end of the block
PaymentsSnapshot ==
    /\ pool_tasks["payments"].pc = "idle"
    /\ pool_ops < MaxPoolOps
    /\ CanRead("miners")
    /\ LET eligible == {w \in DOMAIN miners :
                           miners[w].pending_balance >= pool_config.min_payment_threshold}
       IN pool_tasks' = [pool_tasks EXCEPT !["payments"] =
                            IF eligible = {}
                            THEN [pc |-> "idle", returned |-> "Ok"]
                            ELSE [pc |-> "paying", returned |-> "none",
                                  miners_to_pay |-> [w \in eligible |-> miners[w]]]]
    /\ pool_ops' = pool_ops + 1
    /\ UNCHANGED <<pool_config, miners, pool_stats, miners_lock, pool_last, rw, ledger>>

\* process_payments, one turn of the loop: the cloned pending_balance is
\* paid, then the miner's pending_balance is set to 0 under the write lock
PaymentsPays(w) ==
    LET task == pool_tasks["payments"] IN
    /\ task.pc = "paying"
    /\ w \in DOMAIN task.miners_to_pay
    /\ CanWrite("miners")
    /\ ledger' = [ledger EXCEPT !.paid =
                     With(@, w, Amount(@, w) + task.miners_to_pay[w].pending_balance)]
    /\ miners' = IF w \in DOMAIN miners
                 THEN [miners EXCEPT ![w].pending_balance = 0]
                 ELSE miners
    /\ pool_tasks' = [pool_tasks EXCEPT !["payments"] =
                         IF DOMAIN task.miners_to_pay = {w}
                         THEN [pc |-> "idle", returned |-> "Ok"]
                         ELSE [task EXCEPT !.miners_to_pay = Without(@, w)]]
    /\ UNCHANGED <<pool_config, pool_stats, miners_lock, pool_ops, pool_last, rw>>

RewardsRead ==
    /\ \E block_reward \in 1..MaxBlockReward, outcome \in {"panicked", "deadlocked"} :
          RewardsReadsMiners(block_reward, outcome)
    /\ UNCHANGED notPoolVars
RewardsWrite ==
    /\ RewardsWritesMiners
    /\ UNCHANGED notPoolVars
ShareSubmits ==
    /\ \E worker_name \in Workers, submission \in {"Ok(true)", "Ok(false)", "Err"} :
          ShareSubmitted(worker_name, submission)
    /\ UNCHANGED notPoolVars
ShareLocks ==
    /\ ShareWritesMiners
    /\ UNCHANGED notPoolVars
ShareUpdates ==
    /\ ShareWritesStats
    /\ UNCHANGED notPoolVars
StatsLocks ==
    /\ StatsReadsMiners
    /\ UNCHANGED notPoolVars
StatsUpdates ==
    /\ StatsWritesStats
    /\ UNCHANGED notPoolVars
PaymentsStart ==
    /\ PaymentsSnapshot
    /\ UNCHANGED notPoolVars
PaymentsPay ==
    /\ \E w \in Workers : PaymentsPays(w)
    /\ UNCHANGED notPoolVars

NextPoolThreads ==
    \/ RewardsRead
    \/ RewardsWrite
    \/ ShareSubmits
    \/ ShareLocks
    \/ ShareUpdates
    \/ StatsLocks
    \/ StatsUpdates
    \/ PaymentsStart
    \/ PaymentsPay

SpecPoolThreads == InitPool /\ [][NextPoolThreads]_vars

\* every miner's payouts and pending balance add up to its credits
Accounted ==
    \A w \in DOMAIN miners :
        Amount(ledger.paid, w) + miners[w].pending_balance = Amount(ledger.credited, w)
\* calculate_block_rewards, called on miners with accepted shares, comes to
\* its end between the snapshot and the reset of a payout
RewardsEndInPayout ==
    /\ pool_tasks["rewards"].pc = "write_miners"
    /\ pool_tasks'["rewards"].pc = "idle"
    /\ pool_tasks["payments"].pc = "paying"

SelfBlocked(t) ==
    /\ pool_tasks[t].pc = "write_miners"
    /\ t \in rw.miners.readers
    /\ pool_tasks[t].outcome = "deadlocked"
\* t waits for a lock that is never released
WaitsForever(t) ==
    \/ SelfBlocked(t)
    \/ /\ pool_tasks[t].pc \in {"write_miners", "paying"}
       /\ \E u \in PoolThreads \ {t} : SelfBlocked(u)

\* C39: pool accounting never deadlocks: no interleaving of
\* calculate_block_rewards, process_share, process_payments and the
\* statistics task reaches a state where a thread waits for ever for the
\* lock of miners or of stats
C39_NoPoolDeadlock == \A t \in PoolThreads : ~WaitsForever(t)

\* C40: the proof-of-work computation stays inside its buffers: for every
\* header, nonce and height compute_hash and verify_kawpow of kawpow.rs
\* return instead of aborting, and in every turn of the dataset accesses the
\* 4-byte reads and writes of the index derivation and of fnv_hash_merge lie
\* within the mix
C40_PowStaysInBuffers ==
    /\ Done("verify_kawpow")
          => /\ Returned(ret.value.hashed)
             /\ build.kawpow = "kawpow.rs"
                   => \A i \in 1..2 : Returned(ret.value.verified[i])
    /\ Done("mix_accesses")
          => /\ Returned(ret.value.index_read)
             /\ Returned(ret.value.merged)
             /\ Returned(ret.value.parent_read)
             /\ Returned(ret.value.parent_merged)

====
